---- MODULE Spec2Model ----
(***************************************************************************)
(* Adaptive pollers of ThirdBrAIn-Tools.                                   *)
(*                                                                         *)
(* Three copies of the research poller are modelled, each from its own     *)
(* source:                                                                 *)
(*   "base"          BaseProvider.poll_until_complete                      *)
(*                   (deep_research/shared/base.py)                        *)
(*   "script"        BaseProvider.poll_until_complete                      *)
(*                   (deep-research/scripts/research.py)                   *)
(*   "poll_research" poll_until_complete (scripts/poll_research.py)        *)
(*                                                                         *)
(* Around them: main() of both research scripts where it handles what the  *)
(* poller raises, main() of scripts/poll_research.py (--check-only, saving  *)
(* of the results), DeepSeekProvider with its _results_cache, and the       *)
(* Gamma poller poll_generation_status                                      *)
(* (scripts/generate_gamma_presentation.py).                                *)
(*                                                                         *)
(* Time is counted in whole seconds, as the code does with                 *)
(* int(time.time() - start_time).  A status check takes 0 or SlowCheckDur   *)
(* seconds of wall-clock time; time.sleep(interval) takes interval         *)
(* seconds.  One poll session runs at a time; a new one may start when the  *)
(* previous one has ended.                                                 *)
(***************************************************************************)
EXTENDS Integers, Sequences, FiniteSets, TLC

\* max_timeout = 1800 in BaseProvider.poll_until_complete (shared/base.py).
BaseMaxTimeout == 1800

\* max_timeout = 1800 in BaseProvider.poll_until_complete (scripts/research.py).
ScriptMaxTimeout == 1800

\* Default of poll_research's max_timeout parameter and of --timeout.
PollResearchDefaultTimeout == 1800

\* Values of --timeout tried for poll_research (max_timeout parameter).
Timeouts == {0, 25, 40, PollResearchDefaultTimeout}

\* Readings of time.time() at which a session may start.
StartClocks == {0, 1000}

\* A status check that is slow (the HTTP request has a 120 s timeout of its
\* own): long enough to cross a tier boundary or a small max_timeout.
SlowCheckDur == 20

\* Wall-clock durations of one status check: immediate or slow.
CheckDurations == {0, SlowCheckDur}

\* What a status check can give the poller: a status string, or an error
\* (an exception inside the HTTP request).
CheckError == "<error>"

\* Return values of BaseProvider.check_status; "cancelled" stands for any
\* value outside the documented three.
ProviderStatuses == {"completed", "failed", "in_progress", "cancelled"}

\* Values of response.get("status", "unknown") seen by poll_research.
RawStatuses ==
    {"completed", "failed", "processing", "pending", "cancelled", "unknown"}

\* Job handles (request ids, generation ids) handed to the pollers; their
\* content is never looked at.
Handles == {"h1", "h2"}

\* Cap on the polls of one session; no session of the pollers reaches it.
MaxPolls == 16

\* Largest argument tried for the interval functions on their own.
MaxElapsedArg == 320

\* None, and the value of the result variable while nothing was returned.
None == "None"
NoResult == [url |-> None, generation_id |-> None, error |-> None]

\* One research poller of the side-by-side run: its position, its clock and
\* what it has done so far.
IdleCopy ==
    [pc |-> "idle", now |-> 0, elapsed |-> 0, poll_num |-> 0,
     interval |-> 0, outcome |-> "none", returned |-> "none",
     exited |-> FALSE, exit_code |-> 0, checks |-> 0, sleeps |-> <<>>]

\* What the callers of a DeepSeekProvider have seen so far: the ids that
\* create_request returned, the ids whose report get_results returned, and
\* the id passed to the last get_results call.
NoRequests == [ids |-> {}, retrieved |-> {}, asked |-> "none"]

\* main() of research.py before it has run: args.poll, the status that
\* create_request returned, the value of the local status, and the number of
\* get_results calls made.
NoRun == [poll |-> FALSE, created |-> "none", status |-> "none",
          get_results |-> 0]

NoCopies == [v \in {"base", "script", "poll_research"} |-> IdleCopy]

VARIABLES
    variant,            \* which copy of the poller runs the session
    pc,                 \* "idle", "poll" (top of the loop), "sleep", "done"
    now,                \* time.time()
    start_time,         \* start_time
    max_timeout,        \* max_timeout
    elapsed,            \* elapsed, as read at the top of the iteration
    poll_num,           \* poll_num
    status,             \* status, as the last status check gave it
    normalized_status,  \* the status the decisions are taken on
    interval,           \* interval handed to time.sleep
    outcome,            \* branch that ended the session
    returned,           \* value returned to the caller ("none": no return)
    exited,             \* sys.exit was called
    exit_code,          \* its argument
    raised,             \* an exception left poll_until_complete
    checks,             \* number of status checks made in the session
    sleeps,             \* the sleeps of the session, in order
    onlyInProgress,     \* every status that did not end the session was "in_progress"
    request_id,         \* request_id / generation_id: the handle of the session
    checked_id,         \* the handle the last status check was made with
    timed_out_before,   \* handle of the previous session if that one timed out
    errors,             \* number of status checks of the session that raised
    cache,              \* keys of DeepSeekProvider._results_cache
    files,              \* files written by the process
    main_pc,            \* position of the calling main()
    result,             \* the dict returned by poll_generation_status
    copies,             \* the three research pollers run side by side
    issued,             \* history of the DeepSeekProvider calls
    run                 \* research main(): args.poll, status, calls made

vars == <<variant, pc, now, start_time, max_timeout, elapsed, poll_num,
          status, normalized_status, interval, outcome, returned, exited,
          exit_code, raised, checks, sleeps, onlyInProgress, request_id,
          checked_id, timed_out_before, errors, cache, files, main_pc, result,
          copies, issued, run>>

Variants == {"base", "script", "poll_research"}
Outcomes == {"Completed", "Failed", "TimedOut", "Aborted"}

Init ==
    /\ variant = "none"
    /\ pc = "idle"
    /\ now = 0
    /\ start_time = 0
    /\ max_timeout = 0
    /\ elapsed = 0
    /\ poll_num = 0
    /\ status = "none"
    /\ normalized_status = "none"
    /\ interval = 0
    /\ outcome = "none"
    /\ returned = "none"
    /\ exited = FALSE
    /\ exit_code = 0
    /\ raised = FALSE
    /\ checks = 0
    /\ sleeps = <<>>
    /\ onlyInProgress = TRUE
    /\ request_id = "none"
    /\ checked_id = "none"
    /\ timed_out_before = "none"
    /\ errors = 0
    /\ cache = {}
    /\ files = {}
    /\ main_pc = "none"
    /\ result = NoResult
    /\ copies = NoCopies
    /\ issued = NoRequests
    /\ run = NoRun

----------------------------------------------------------------------------
(* agentskills/deep-research/src/deep_research/shared/base.py *)

\* Mutant: the tier tests include their upper bound.
Base_get_adaptive_poll_interval_inclusive(elapsed_seconds) ==
    IF elapsed_seconds <= 10 THEN 10
    ELSE IF elapsed_seconds <= 30 THEN 30
    ELSE IF elapsed_seconds <= 300 THEN 60
    ELSE 300

\* Mutant: the values of the 30-second and the 1-minute tier are exchanged.
Base_get_adaptive_poll_interval_swapped(elapsed_seconds) ==
    IF elapsed_seconds < 10 THEN 10
    ELSE IF elapsed_seconds < 30 THEN 60
    ELSE IF elapsed_seconds < 300 THEN 30
    ELSE 300

Base_get_adaptive_poll_interval(elapsed_seconds) ==
    IF elapsed_seconds < 10 THEN 10
    ELSE IF elapsed_seconds < 30 THEN 30
    ELSE IF elapsed_seconds < 300 THEN 60
    ELSE 300

\* Mutant: the timeout is recognised only when elapsed hits the limit exactly.
BaseTimedOut_exact(e, limit) == e = limit

\* "Check if we've exceeded the max timeout": if elapsed >= max_timeout.
BaseTimedOut(e, limit) == e >= limit

\* Mutant: the timeout is tested before the status.
BaseDecide_timeout_first(s, e) ==
    IF BaseTimedOut(e, BaseMaxTimeout) THEN "TimedOut"
    ELSE IF s = "completed" THEN "Completed"
    ELSE IF s = "failed" THEN "Failed"
    ELSE "Sleep"

\* The decisions of one iteration after check_status has returned s at
\* elapsed e: return "completed", return "failed", return "in_progress"
\* (timeout) or sleep.
BaseDecide(s, e) ==
    IF s = "completed" THEN "Completed"
    ELSE IF s = "failed" THEN "Failed"
    ELSE IF BaseTimedOut(e, BaseMaxTimeout) THEN "TimedOut"
    ELSE "Sleep"

\* The value each return statement of the loop hands to the caller
\* ("none" where the iteration goes on to sleep).
BaseReturn(step) ==
    IF step = "Completed" THEN "completed"
    ELSE IF step = "Failed" THEN "failed"
    ELSE IF step = "TimedOut" THEN "in_progress"
    ELSE "none"

\* Mutant: start_time is set by the first session only and kept by later ones.
BaseStart_keeps_clock ==
    /\ pc \in {"idle", "done"}
    /\ ~(raised /\ ~exited)
    /\ \E t \in StartClocks :
         /\ now' = t
         /\ start_time' = IF pc = "done" THEN start_time ELSE t
    /\ max_timeout' = 0
    /\ variant' = "base"
    /\ pc' = "poll"
    /\ poll_num' = 0
    /\ elapsed' = 0
    /\ status' = "none"
    /\ normalized_status' = "none"
    /\ interval' = 0
    /\ outcome' = "none"
    /\ returned' = "none"
    /\ exited' = FALSE
    /\ exit_code' = 0
    /\ raised' = FALSE
    /\ checks' = 0
    /\ sleeps' = <<>>
    /\ onlyInProgress' = TRUE
    /\ \E h \in Handles : request_id' = h
    /\ checked_id' = "none"
    /\ timed_out_before' =
         IF pc = "done" /\ outcome = "TimedOut" THEN request_id ELSE "none"
    /\ errors' = 0
    /\ result' = NoResult
    /\ UNCHANGED <<cache, files, main_pc>>
    /\ UNCHANGED <<copies, issued, run>>

\* Entry of BaseProvider.poll_until_complete, up to the loop.  max_timeout is
\* a local assigned inside the loop; 0 stands for "not yet assigned".
BaseStart ==
    /\ pc \in {"idle", "done"}
    /\ ~(raised /\ ~exited)
    /\ \E t \in StartClocks :
         /\ now' = t
         /\ start_time' = t
    /\ max_timeout' = 0
    /\ variant' = "base"
    /\ pc' = "poll"
    /\ poll_num' = 0
    /\ elapsed' = 0
    /\ status' = "none"
    /\ normalized_status' = "none"
    /\ interval' = 0
    /\ outcome' = "none"
    /\ returned' = "none"
    /\ exited' = FALSE
    /\ exit_code' = 0
    /\ raised' = FALSE
    /\ checks' = 0
    /\ sleeps' = <<>>
    /\ onlyInProgress' = TRUE
    /\ \E h \in Handles : request_id' = h
    /\ checked_id' = "none"
    /\ timed_out_before' =
         IF pc = "done" /\ outcome = "TimedOut" THEN request_id ELSE "none"
    /\ errors' = 0
    /\ result' = NoResult
    /\ UNCHANGED <<cache, files, main_pc>>
    /\ UNCHANGED <<copies, issued, run>>

\* One iteration of the loop, from the reading of elapsed to the point where
\* the method returns, raises or is about to sleep.  r is what
\* self.check_status gives (used as it is, no normalisation here) and d the
\* time it takes.
BasePoll ==
    /\ pc = "poll"
    /\ poll_num < MaxPolls
    /\ variant = "base"
    /\ \E r \in ProviderStatuses \cup {CheckError}, d \in CheckDurations :
         LET e == now - start_time
         IN  /\ elapsed' = e
             /\ poll_num' = poll_num + 1
             /\ checks' = checks + 1
             /\ now' = now + d
             /\ errors' = IF r = CheckError THEN errors + 1 ELSE errors
             /\ IF r = CheckError
                THEN \* the exception of check_status leaves the method
                     /\ status' = status
                     /\ normalized_status' = normalized_status
                     /\ onlyInProgress' = onlyInProgress
                     /\ outcome' = "Aborted"
                     /\ raised' = TRUE
                     /\ returned' = "none"
                     /\ pc' = "done"
                     /\ UNCHANGED <<interval, max_timeout>>
                ELSE /\ status' = r
                     /\ normalized_status' = r
                     /\ onlyInProgress' =
                          (onlyInProgress
                             /\ r \in {"in_progress", "completed", "failed"})
                     /\ raised' = FALSE
                     /\ max_timeout' =
                          IF r \in {"completed", "failed"}
                          THEN max_timeout ELSE BaseMaxTimeout
                     /\ LET step == BaseDecide(r, e)
                        IN  /\ returned' = BaseReturn(step)
                            /\ IF step = "Sleep"
                               THEN /\ outcome' = "none"
                                    /\ pc' = "sleep"
                                    /\ interval' =
                                         Base_get_adaptive_poll_interval(e)
                               ELSE /\ outcome' = step
                                    /\ pc' = "done"
                                    /\ interval' = interval
    /\ checked_id' = request_id
    /\ UNCHANGED <<variant, start_time, exited, exit_code, sleeps>>
    /\ UNCHANGED <<request_id, timed_out_before, cache, files, main_pc, result>>
    /\ UNCHANGED <<copies, issued, run>>

\* Mutant: the timer is started again after every sleep.
BaseSleep_restarts_timer ==
    /\ pc = "sleep"
    /\ variant = "base"
    /\ now' = now + interval
    /\ sleeps' = Append(sleeps, interval)
    /\ pc' = "poll"
    /\ start_time' = now + interval
    /\ UNCHANGED <<variant, max_timeout, elapsed, poll_num,
                   status, normalized_status, interval, outcome, returned,
                   exited, exit_code, raised, checks, onlyInProgress>>
    /\ UNCHANGED <<request_id, checked_id, timed_out_before, errors, cache,
                   files, main_pc, result>>
    /\ UNCHANGED <<copies, issued, run>>

\* time.sleep(interval), then back to the top of the loop.
BaseSleep ==
    /\ pc = "sleep"
    /\ variant = "base"
    /\ now' = now + interval
    /\ sleeps' = Append(sleeps, interval)
    /\ pc' = "poll"
    /\ UNCHANGED <<variant, start_time, max_timeout, elapsed, poll_num,
                   status, normalized_status, interval, outcome, returned,
                   exited, exit_code, raised, checks, onlyInProgress>>
    /\ UNCHANGED <<request_id, checked_id, timed_out_before, errors, cache,
                   files, main_pc, result>>
    /\ UNCHANGED <<copies, issued, run>>

\* main() of deep_research/research.py, "except Exception": an exception that
\* left poll_until_complete is reported and the process exits with code 1.
BaseMainExcept ==
    /\ pc = "done"
    /\ variant = "base"
    /\ raised /\ ~exited
    /\ exited' = TRUE
    /\ exit_code' = 1
    /\ UNCHANGED <<variant, pc, now, start_time, max_timeout, elapsed,
                   poll_num, status, normalized_status, interval, outcome,
                   returned, raised, checks, sleeps, onlyInProgress>>
    /\ UNCHANGED <<request_id, checked_id, timed_out_before, errors, cache,
                   files, main_pc, result>>
    /\ UNCHANGED <<copies, issued, run>>

----------------------------------------------------------------------------
(* agentskills/deep-research/scripts/research.py *)

\* Mutant: this copy has no 5-minute tier.
Script_get_adaptive_poll_interval_no_5min(elapsed_seconds) ==
    IF elapsed_seconds < 10 THEN 10
    ELSE IF elapsed_seconds < 30 THEN 30
    ELSE 60

\* Mutant: the 5-minute test comes before the 30-second test.
Script_get_adaptive_poll_interval_misordered(elapsed_seconds) ==
    IF elapsed_seconds < 10 THEN 10
    ELSE IF elapsed_seconds < 300 THEN 60
    ELSE IF elapsed_seconds < 30 THEN 30
    ELSE 300

Script_get_adaptive_poll_interval(elapsed_seconds) ==
    IF elapsed_seconds < 10 THEN 10
    ELSE IF elapsed_seconds < 30 THEN 30
    ELSE IF elapsed_seconds < 300 THEN 60
    ELSE 300

\* Mutant: the timeout is reported one 5-minute interval early.
ScriptTimedOut_early(e, limit) == e + 300 >= limit

\* "Check if we've exceeded the max timeout": if elapsed >= max_timeout.
ScriptTimedOut(e, limit) == e >= limit

\* Mutant: every status other than "completed" and "in_progress" is taken
\* for a failure.
ScriptDecide_unknown_fails(s, e) ==
    IF s = "completed" THEN "Completed"
    ELSE IF s # "in_progress" THEN "Failed"
    ELSE IF ScriptTimedOut(e, ScriptMaxTimeout) THEN "TimedOut"
    ELSE "Sleep"

\* The decisions of one iteration after check_status has returned s at
\* elapsed e: return "completed", return "failed", return "in_progress"
\* (timeout) or sleep.
ScriptDecide(s, e) ==
    IF s = "completed" THEN "Completed"
    ELSE IF s = "failed" THEN "Failed"
    ELSE IF ScriptTimedOut(e, ScriptMaxTimeout) THEN "TimedOut"
    ELSE "Sleep"

\* The value each return statement of the loop hands to the caller
\* ("none" where the iteration goes on to sleep).
ScriptReturn(step) ==
    IF step = "Completed" THEN "completed"
    ELSE IF step = "Failed" THEN "failed"
    ELSE IF step = "TimedOut" THEN "in_progress"
    ELSE "none"

\* Entry of BaseProvider.poll_until_complete, up to the loop.  max_timeout is
\* a local assigned inside the loop; 0 stands for "not yet assigned".
ScriptStart ==
    /\ pc \in {"idle", "done"}
    /\ ~(raised /\ ~exited)
    /\ \E t \in StartClocks :
         /\ now' = t
         /\ start_time' = t
    /\ max_timeout' = 0
    /\ variant' = "script"
    /\ pc' = "poll"
    /\ poll_num' = 0
    /\ elapsed' = 0
    /\ status' = "none"
    /\ normalized_status' = "none"
    /\ interval' = 0
    /\ outcome' = "none"
    /\ returned' = "none"
    /\ exited' = FALSE
    /\ exit_code' = 0
    /\ raised' = FALSE
    /\ checks' = 0
    /\ sleeps' = <<>>
    /\ onlyInProgress' = TRUE
    /\ \E h \in Handles : request_id' = h
    /\ checked_id' = "none"
    /\ timed_out_before' =
         IF pc = "done" /\ outcome = "TimedOut" THEN request_id ELSE "none"
    /\ errors' = 0
    /\ result' = NoResult
    /\ UNCHANGED <<cache, files, main_pc>>
    /\ UNCHANGED <<copies, issued, run>>

\* One iteration of the loop, from the reading of elapsed to the point where
\* the method returns, raises or is about to sleep.  r is what
\* self.check_status gives (used as it is, no normalisation here) and d the
\* time it takes.
ScriptPoll ==
    /\ pc = "poll"
    /\ poll_num < MaxPolls
    /\ variant = "script"
    /\ \E r \in ProviderStatuses \cup {CheckError}, d \in CheckDurations :
         LET e == now - start_time
         IN  /\ elapsed' = e
             /\ poll_num' = poll_num + 1
             /\ checks' = checks + 1
             /\ now' = now + d
             /\ errors' = IF r = CheckError THEN errors + 1 ELSE errors
             /\ IF r = CheckError
                THEN \* the exception of check_status leaves the method
                     /\ status' = status
                     /\ normalized_status' = normalized_status
                     /\ onlyInProgress' = onlyInProgress
                     /\ outcome' = "Aborted"
                     /\ raised' = TRUE
                     /\ returned' = "none"
                     /\ pc' = "done"
                     /\ UNCHANGED <<interval, max_timeout>>
                ELSE /\ status' = r
                     /\ normalized_status' = r
                     /\ onlyInProgress' =
                          (onlyInProgress
                             /\ r \in {"in_progress", "completed", "failed"})
                     /\ raised' = FALSE
                     /\ max_timeout' =
                          IF r \in {"completed", "failed"}
                          THEN max_timeout ELSE ScriptMaxTimeout
                     /\ LET step == ScriptDecide(r, e)
                        IN  /\ returned' = ScriptReturn(step)
                            /\ IF step = "Sleep"
                               THEN /\ outcome' = "none"
                                    /\ pc' = "sleep"
                                    /\ interval' =
                                         Script_get_adaptive_poll_interval(e)
                               ELSE /\ outcome' = step
                                    /\ pc' = "done"
                                    /\ interval' = interval
    /\ checked_id' = request_id
    /\ UNCHANGED <<variant, start_time, exited, exit_code, sleeps>>
    /\ UNCHANGED <<request_id, timed_out_before, cache, files, main_pc, result>>
    /\ UNCHANGED <<copies, issued, run>>

\* time.sleep(interval), then back to the top of the loop.
ScriptSleep ==
    /\ pc = "sleep"
    /\ variant = "script"
    /\ now' = now + interval
    /\ sleeps' = Append(sleeps, interval)
    /\ pc' = "poll"
    /\ UNCHANGED <<variant, start_time, max_timeout, elapsed, poll_num,
                   status, normalized_status, interval, outcome, returned,
                   exited, exit_code, raised, checks, onlyInProgress>>
    /\ UNCHANGED <<request_id, checked_id, timed_out_before, errors, cache,
                   files, main_pc, result>>
    /\ UNCHANGED <<copies, issued, run>>

\* main() of scripts/research.py, "except Exception": an exception that left
\* poll_until_complete is reported and the process exits with code 1.
ScriptMainExcept ==
    /\ pc = "done"
    /\ variant = "script"
    /\ raised /\ ~exited
    /\ exited' = TRUE
    /\ exit_code' = 1
    /\ UNCHANGED <<variant, pc, now, start_time, max_timeout, elapsed,
                   poll_num, status, normalized_status, interval, outcome,
                   returned, raised, checks, sleeps, onlyInProgress>>
    /\ UNCHANGED <<request_id, checked_id, timed_out_before, errors, cache,
                   files, main_pc, result>>
    /\ UNCHANGED <<copies, issued, run>>

----------------------------------------------------------------------------
(* DeepSeekProvider of agentskills/deep-research/scripts/research.py *)

\* DeepSeekProvider.check_status on the cache c: "completed" if the request
\* id is a key of _results_cache, "in_progress" otherwise.
DeepSeek_check_status(c, id) ==
    IF id \in c THEN "completed" ELSE "in_progress"

\* DeepSeekProvider.create_request: the response is stored under a new
\* synthetic request id; when the HTTP request raises, nothing is stored.
DeepSeekCreateRequest ==
    /\ pc \in {"idle", "done"}
    /\ ~(raised /\ ~exited)
    /\ \E h \in Handles \ cache, ok \in BOOLEAN :
         IF ok
         THEN /\ cache' = cache \cup {h}
              /\ returned' = "completed"
              /\ issued' = [issued EXCEPT !.ids = @ \cup {h}]
         ELSE /\ cache' = cache
              /\ returned' = "none"
              /\ issued' = issued
    /\ main_pc' = "create_request"
    /\ UNCHANGED <<variant, pc, now, start_time, max_timeout, elapsed,
                   poll_num, status, normalized_status, interval, outcome,
                   exited, exit_code, raised, checks, sleeps, onlyInProgress>>
    /\ UNCHANGED <<request_id, checked_id, timed_out_before, errors, files,
                   result>>
    /\ UNCHANGED <<copies, run>>

\* Mutant: check_status takes the entry out of the cache, as get_results does.
DeepSeekCheckStatus_consumes ==
    /\ pc \in {"idle", "done"}
    /\ ~(raised /\ ~exited)
    /\ \E h \in Handles :
         /\ checked_id' = h
         /\ returned' = DeepSeek_check_status(cache, h)
         /\ cache' = cache \ {h}
    /\ main_pc' = "check_status"
    /\ UNCHANGED <<variant, pc, now, start_time, max_timeout, elapsed,
                   poll_num, status, normalized_status, interval, outcome,
                   exited, exit_code, raised, checks, sleeps, onlyInProgress>>
    /\ UNCHANGED <<request_id, timed_out_before, errors, files, result>>
    /\ UNCHANGED <<copies, issued, run>>

\* A call of DeepSeekProvider.check_status outside a poll session.
DeepSeekCheckStatus ==
    /\ pc \in {"idle", "done"}
    /\ ~(raised /\ ~exited)
    /\ \E h \in Handles :
         /\ checked_id' = h
         /\ returned' = DeepSeek_check_status(cache, h)
    /\ main_pc' = "check_status"
    /\ UNCHANGED <<variant, pc, now, start_time, max_timeout, elapsed,
                   poll_num, status, normalized_status, interval, outcome,
                   exited, exit_code, raised, checks, sleeps, onlyInProgress>>
    /\ UNCHANGED <<request_id, timed_out_before, errors, cache, files,
                   result>>
    /\ UNCHANGED <<copies, issued, run>>

\* DeepSeekProvider.get_results: an id that is not cached gives the "Request
\* not found" text; otherwise the entry is popped and the report saved
\* (_save_report returns None when the file could not be written).
DeepSeekGetResults ==
    /\ pc \in {"idle", "done"}
    /\ ~(raised /\ ~exited)
    /\ \E h \in Handles, saved \in BOOLEAN :
         IF h \notin cache
         THEN /\ returned' = "Error: Request not found"
              /\ issued' = [issued EXCEPT !.asked = h]
              /\ UNCHANGED <<cache, files>>
         ELSE /\ cache' = cache \ {h}
              /\ issued' = [issued EXCEPT !.asked = h,
                                          !.retrieved = @ \cup {h}]
              /\ files' = IF saved THEN files \cup {<<"report", h>>}
                          ELSE files
              /\ returned' = "markdown"
    /\ main_pc' = "get_results"
    /\ UNCHANGED <<variant, pc, now, start_time, max_timeout, elapsed,
                   poll_num, status, normalized_status, interval, outcome,
                   exited, exit_code, raised, checks, sleeps, onlyInProgress>>
    /\ UNCHANGED <<request_id, checked_id, timed_out_before, errors, result>>
    /\ UNCHANGED <<copies, run>>

\* One iteration of poll_until_complete on a DeepSeekProvider: the status is
\* what DeepSeekProvider.check_status gives on the cache; the check raises
\* nothing and takes no time.
DeepSeekPoll ==
    /\ ScriptPoll
    /\ errors' = errors
    /\ now' = now
    /\ status' = DeepSeek_check_status(cache, request_id)

DeepSeekNext ==
    \/ DeepSeekCreateRequest
    \/ DeepSeekCheckStatus
    \/ DeepSeekGetResults
    \/ ScriptStart
    \/ DeepSeekPoll
    \/ ScriptSleep

SpecDeepSeek == Init /\ [][DeepSeekNext]_vars

----------------------------------------------------------------------------
(* main() of scripts/research.py and of deep_research/research.py *)

\* Statuses that create_request hands to main(): OpenAIProvider normalises
\* to these two and DeepSeekProvider returns "completed".
CreateStatuses == {"completed", "in_progress"}

\* Mutant: the elif for "failed" is missing, so a failed status falls
\* through to Step 3.
ResearchMainStep_failed_falls_through(s) ==
    IF s = "in_progress" THEN "exit" ELSE "get_results"

\* The if / elif chain after Step 2: "completed" goes on to Step 3,
\* "in_progress" and "failed" end in sys.exit(1); any other value would fall
\* through to Step 3.
ResearchMainStep(s) ==
    IF s = "completed" THEN "get_results"
    ELSE IF s = "in_progress" THEN "exit"
    ELSE IF s = "failed" THEN "exit"
    ELSE "get_results"

\* The process starts: arguments parsed, query read, provider constructed.
\* v tells which of the two mains runs ("script": scripts/research.py,
\* "base": deep_research/research.py).
ResearchMainBegin ==
    /\ pc \in {"idle", "done"}
    /\ main_pc \in {"none", "end"} \/ exited
    /\ \E t \in StartClocks : now' = t
    /\ \E v \in {"base", "script"} : variant' = v
    /\ \E p \in BOOLEAN : run' = [NoRun EXCEPT !.poll = p]
    /\ main_pc' = "create_request"
    /\ pc' = "idle"
    /\ files' = {}
    /\ request_id' = "none"
    /\ start_time' = 0
    /\ max_timeout' = 0
    /\ poll_num' = 0
    /\ elapsed' = 0
    /\ status' = "none"
    /\ normalized_status' = "none"
    /\ interval' = 0
    /\ outcome' = "none"
    /\ returned' = "none"
    /\ exited' = FALSE
    /\ exit_code' = 0
    /\ raised' = FALSE
    /\ checks' = 0
    /\ sleeps' = <<>>
    /\ onlyInProgress' = TRUE
    /\ checked_id' = "none"
    /\ timed_out_before' = "none"
    /\ errors' = 0
    /\ result' = NoResult
    /\ UNCHANGED <<cache, copies, issued>>

\* Step 1: request_id, status = provider.create_request(...).  An exception
\* of the call ends the process with exit code 1 (except Exception).
ResearchMainCreateRequest ==
    /\ main_pc = "create_request"
    /\ ~exited
    /\ \E ok \in BOOLEAN, h \in Handles, c \in CreateStatuses :
         IF ok
         THEN /\ request_id' = h
              /\ run' = [run EXCEPT !.created = c, !.status = c]
              /\ main_pc' = "created"
              /\ UNCHANGED <<exited, exit_code>>
         ELSE /\ request_id' = request_id
              /\ run' = run
              /\ main_pc' = "end"
              /\ exited' = TRUE
              /\ exit_code' = 1
    /\ UNCHANGED <<variant, pc, now, start_time, max_timeout, elapsed,
                   poll_num, status, normalized_status, interval, outcome,
                   returned, raised, checks, sleeps, onlyInProgress>>
    /\ UNCHANGED <<checked_id, timed_out_before, errors, cache, files,
                   result>>
    /\ UNCHANGED <<copies, issued>>

\* Step 2: if status == "in_progress" and args.poll, the call of
\* provider.poll_until_complete(request_id=request_id, ...).
ResearchMainPoll ==
    /\ main_pc = "created"
    /\ pc = "idle"
    /\ ~exited
    /\ run.status = "in_progress" /\ run.poll
    /\ IF variant = "base" THEN BaseStart ELSE ScriptStart
    /\ request_id' = request_id

\* The rest of Step 2: status takes the value poll_until_complete returned,
\* if it was called, and the if / elif chain either goes on to Step 3 or ends
\* the process with sys.exit(1).
ResearchMainStatus ==
    /\ main_pc = "created"
    /\ ~exited
    /\ \/ pc = "idle" /\ ~(run.status = "in_progress" /\ run.poll)
       \/ pc = "done" /\ ~raised
    /\ LET s == IF pc = "done" THEN returned ELSE run.status
       IN  /\ run' = [run EXCEPT !.status = s]
           /\ IF ResearchMainStep(s) = "get_results"
              THEN /\ main_pc' = "get_results"
                   /\ UNCHANGED <<exited, exit_code>>
              ELSE /\ main_pc' = "end"
                   /\ exited' = TRUE
                   /\ exit_code' = 1
    /\ UNCHANGED <<variant, pc, now, start_time, max_timeout, elapsed,
                   poll_num, status, normalized_status, interval, outcome,
                   returned, raised, checks, sleeps, onlyInProgress>>
    /\ UNCHANGED <<request_id, checked_id, timed_out_before, errors, cache,
                   files, result>>
    /\ UNCHANGED <<copies, issued>>

\* Step 3: provider.get_results(request_id=request_id, ...), which saves
\* the report unless the file cannot be written; main() then prints the
\* report and returns.  An exception of the call ends the process with exit
\* code 1.
ResearchMainGetResults ==
    /\ main_pc = "get_results"
    /\ ~exited
    /\ run' = [run EXCEPT !.get_results = @ + 1]
    /\ \E ok \in BOOLEAN, saved \in BOOLEAN :
         IF ok
         THEN /\ files' = IF saved THEN files \cup {<<"report", request_id>>}
                          ELSE files
              /\ UNCHANGED <<exited, exit_code>>
         ELSE /\ files' = files
              /\ exited' = TRUE
              /\ exit_code' = 1
    /\ main_pc' = "end"
    /\ UNCHANGED <<variant, pc, now, start_time, max_timeout, elapsed,
                   poll_num, status, normalized_status, interval, outcome,
                   returned, raised, checks, sleeps, onlyInProgress>>
    /\ UNCHANGED <<request_id, checked_id, timed_out_before, errors, cache,
                   result>>
    /\ UNCHANGED <<copies, issued>>

\* except Exception: sys.exit(1), for an exception that left
\* poll_until_complete.
ResearchMainExcept ==
    /\ main_pc = "created"
    /\ (BaseMainExcept \/ ScriptMainExcept)

\* except KeyboardInterrupt: sys.exit(130).  The interrupt can arrive at any
\* point of the try block.
ResearchMainInterrupt ==
    /\ main_pc \in {"create_request", "created", "get_results"}
    /\ ~exited
    /\ exited' = TRUE
    /\ exit_code' = 130
    /\ main_pc' = "end"
    /\ pc' = IF pc \in {"poll", "sleep"} THEN "done" ELSE pc
    /\ outcome' = IF pc \in {"poll", "sleep"} THEN "Interrupted" ELSE outcome
    /\ UNCHANGED <<variant, now, start_time, max_timeout, elapsed, poll_num,
                   status, normalized_status, interval, returned, raised,
                   checks, sleeps, onlyInProgress>>
    /\ UNCHANGED <<request_id, checked_id, timed_out_before, errors, cache,
                   files, result>>
    /\ UNCHANGED <<copies, issued, run>>

ResearchMainNext ==
    \/ ResearchMainBegin
    \/ ResearchMainCreateRequest
    \/ ResearchMainPoll
    \/ BasePoll
    \/ BaseSleep
    \/ ScriptPoll
    \/ ScriptSleep
    \/ ResearchMainStatus
    \/ ResearchMainGetResults
    \/ ResearchMainExcept
    \/ ResearchMainInterrupt

SpecResearchMain == Init /\ [][ResearchMainNext]_vars

----------------------------------------------------------------------------
(* scripts/poll_research.py *)

\* Mutant: the tier tests include their upper bound.
get_adaptive_poll_interval_inclusive(elapsed_seconds) ==
    IF elapsed_seconds <= 10 THEN 10
    ELSE IF elapsed_seconds <= 30 THEN 30
    ELSE IF elapsed_seconds <= 300 THEN 60
    ELSE 300

get_adaptive_poll_interval(elapsed_seconds) ==
    IF elapsed_seconds < 10 THEN 10
    ELSE IF elapsed_seconds < 30 THEN 30
    ELSE IF elapsed_seconds < 300 THEN 60
    ELSE 300

\* The inline "Normalize status" of poll_until_complete.
PollResearchNormalize(s) ==
    IF s \in {"processing", "pending"} THEN "in_progress"
    ELSE IF s = "completed" THEN "completed"
    ELSE IF s = "failed" THEN "failed"
    ELSE "in_progress"

\* Mutant: the timeout needs elapsed to be past the limit.
PollResearchTimedOut_strict(e, limit) == e > limit

\* "Check timeout": if elapsed >= max_timeout.
PollResearchTimedOut(e, limit) == e >= limit

\* Mutant: the session also ends when the next sleep would go past the limit.
PollResearchDecide_lookahead(n, e, limit) ==
    IF n = "completed" THEN "Completed"
    ELSE IF n = "failed" THEN "Failed"
    ELSE IF e >= limit \/ e + get_adaptive_poll_interval(e) > limit
    THEN "TimedOut"
    ELSE "Sleep"

\* Mutant: "Check timeout" comes before "Check completion".
PollResearchDecide_timeout_first(n, e, limit) ==
    IF PollResearchTimedOut(e, limit) THEN "TimedOut"
    ELSE IF n = "completed" THEN "Completed"
    ELSE IF n = "failed" THEN "Failed"
    ELSE "Sleep"

\* The decisions of one iteration on the normalised status n at elapsed e:
\* "Check completion" (return response / sys.exit(1)), "Check timeout"
\* (sys.exit(1)) or "Adaptive sleep".
PollResearchDecide(n, e, limit) ==
    IF n = "completed" THEN "Completed"
    ELSE IF n = "failed" THEN "Failed"
    ELSE IF PollResearchTimedOut(e, limit) THEN "TimedOut"
    ELSE "Sleep"

\* Mutant: a failed request leaves the loop like a completed one.
PollResearchEnd_failed_returns(step) ==
    IF step = "Completed"
    THEN [returned |-> "response", exited |-> FALSE, exit_code |-> 0]
    ELSE IF step = "Failed"
    THEN [returned |-> "response", exited |-> FALSE, exit_code |-> 0]
    ELSE IF step = "TimedOut"
    THEN [returned |-> "none", exited |-> TRUE, exit_code |-> 1]
    ELSE [returned |-> "none", exited |-> FALSE, exit_code |-> 0]

\* Mutant: on timeout the loop is left and the last response returned.
PollResearchEnd_returns(step) ==
    IF step = "Completed"
    THEN [returned |-> "response", exited |-> FALSE, exit_code |-> 0]
    ELSE IF step = "Failed"
    THEN [returned |-> "none", exited |-> TRUE, exit_code |-> 1]
    ELSE IF step = "TimedOut"
    THEN [returned |-> "response", exited |-> FALSE, exit_code |-> 0]
    ELSE [returned |-> "none", exited |-> FALSE, exit_code |-> 0]

\* How each branch of the loop leaves the function: "return response" on
\* completed; sys.exit(1) on failed and on timeout; nothing while the
\* iteration goes on to sleep.
PollResearchEnd(step) ==
    IF step = "Completed"
    THEN [returned |-> "response", exited |-> FALSE, exit_code |-> 0]
    ELSE IF step = "Failed"
    THEN [returned |-> "none", exited |-> TRUE, exit_code |-> 1]
    ELSE IF step = "TimedOut"
    THEN [returned |-> "none", exited |-> TRUE, exit_code |-> 1]
    ELSE [returned |-> "none", exited |-> FALSE, exit_code |-> 0]

\* Entry of poll_until_complete, up to the loop.
PollResearchStart ==
    /\ pc \in {"idle", "done"}
    /\ ~(raised /\ ~exited)
    /\ \E t \in StartClocks, m \in Timeouts :
         /\ now' = t
         /\ start_time' = t
         /\ max_timeout' = m
    /\ variant' = "poll_research"
    /\ pc' = "poll"
    /\ poll_num' = 0
    /\ elapsed' = 0
    /\ status' = "none"
    /\ normalized_status' = "none"
    /\ interval' = 0
    /\ outcome' = "none"
    /\ returned' = "none"
    /\ exited' = FALSE
    /\ exit_code' = 0
    /\ raised' = FALSE
    /\ checks' = 0
    /\ sleeps' = <<>>
    /\ onlyInProgress' = TRUE
    /\ \E h \in Handles : request_id' = h
    /\ checked_id' = "none"
    /\ timed_out_before' =
         IF pc = "done" /\ outcome = "TimedOut" THEN request_id ELSE "none"
    /\ errors' = 0
    /\ result' = NoResult
    /\ UNCHANGED <<cache, files, main_pc>>
    /\ UNCHANGED <<copies, issued, run>>

\* Mutant: an error of the status request is followed by a sleep and a retry.
PollResearchPoll_retries ==
    /\ pc = "poll"
    /\ poll_num < MaxPolls
    /\ variant = "poll_research"
    /\ \E r \in RawStatuses \cup {CheckError}, d \in CheckDurations :
         LET e == now - start_time
             n == PollResearchNormalize(r)
         IN  /\ elapsed' = e
             /\ poll_num' = poll_num + 1
             /\ checks' = checks + 1
             /\ now' = now + d
             /\ errors' = IF r = CheckError THEN errors + 1 ELSE errors
             /\ IF r = CheckError
                THEN \* the error is swallowed and the check retried
                     /\ status' = status
                     /\ normalized_status' = normalized_status
                     /\ onlyInProgress' = onlyInProgress
                     /\ outcome' = "none"
                     /\ exited' = FALSE /\ exit_code' = 0
                     /\ returned' = "none"
                     /\ pc' = "sleep"
                     /\ interval' = get_adaptive_poll_interval(e)
                ELSE /\ status' = r
                     /\ normalized_status' = n
                     /\ onlyInProgress' =
                          (onlyInProgress
                             /\ n \in {"in_progress", "completed", "failed"})
                     /\ LET step == PollResearchDecide(n, e, max_timeout)
                            end == PollResearchEnd(step)
                        IN  /\ returned' = end.returned
                            /\ exited' = end.exited
                            /\ exit_code' = end.exit_code
                            /\ IF step = "Sleep"
                               THEN /\ outcome' = "none"
                                    /\ pc' = "sleep"
                                    /\ interval' =
                                         get_adaptive_poll_interval(e)
                               ELSE /\ outcome' = step
                                    /\ pc' = "done"
                                    /\ interval' = interval
    /\ checked_id' = request_id
    /\ UNCHANGED <<variant, start_time, max_timeout, raised, sleeps>>
    /\ UNCHANGED <<request_id, timed_out_before, cache, files, main_pc, result>>
    /\ UNCHANGED <<copies, issued, run>>

\* One iteration of the loop, from the reading of elapsed to the point where
\* the function returns, exits or is about to sleep.  r is what the status
\* request gives and d the time it takes.
PollResearchPoll ==
    /\ pc = "poll"
    /\ poll_num < MaxPolls
    /\ variant = "poll_research"
    /\ \E r \in RawStatuses \cup {CheckError}, d \in CheckDurations :
         LET e == now - start_time
             n == PollResearchNormalize(r)
         IN  /\ elapsed' = e
             /\ poll_num' = poll_num + 1
             /\ checks' = checks + 1
             /\ now' = now + d
             /\ errors' = IF r = CheckError THEN errors + 1 ELSE errors
             /\ IF r = CheckError
                THEN \* check_status: except ...: sys.exit(1)
                     /\ status' = status
                     /\ normalized_status' = normalized_status
                     /\ onlyInProgress' = onlyInProgress
                     /\ outcome' = "Aborted"
                     /\ exited' = TRUE /\ exit_code' = 1
                     /\ returned' = "none"
                     /\ pc' = "done"
                     /\ interval' = interval
                ELSE /\ status' = r
                     /\ normalized_status' = n
                     /\ onlyInProgress' =
                          (onlyInProgress
                             /\ n \in {"in_progress", "completed", "failed"})
                     /\ LET step == PollResearchDecide(n, e, max_timeout)
                            end == PollResearchEnd(step)
                        IN  /\ returned' = end.returned
                            /\ exited' = end.exited
                            /\ exit_code' = end.exit_code
                            /\ IF step = "Sleep"
                               THEN /\ outcome' = "none"
                                    /\ pc' = "sleep"
                                    /\ interval' =
                                         get_adaptive_poll_interval(e)
                               ELSE /\ outcome' = step
                                    /\ pc' = "done"
                                    /\ interval' = interval
    /\ checked_id' = request_id
    /\ UNCHANGED <<variant, start_time, max_timeout, raised, sleeps>>
    /\ UNCHANGED <<request_id, timed_out_before, cache, files, main_pc, result>>
    /\ UNCHANGED <<copies, issued, run>>

\* Mutant: request_id is assigned again while the session sleeps.
PollResearchSleep_rebinds ==
    /\ pc = "sleep"
    /\ variant = "poll_research"
    /\ now' = now + interval
    /\ sleeps' = Append(sleeps, interval)
    /\ pc' = "poll"
    /\ UNCHANGED <<variant, start_time, max_timeout, elapsed, poll_num,
                   status, normalized_status, interval, outcome, returned,
                   exited, exit_code, raised, checks, onlyInProgress>>
    /\ \E h \in Handles : request_id' = h
    /\ UNCHANGED <<checked_id, timed_out_before, errors, cache, files,
                   main_pc, result>>
    /\ UNCHANGED <<copies, issued, run>>

\* time.sleep(interval), then back to the top of the loop.
PollResearchSleep ==
    /\ pc = "sleep"
    /\ variant = "poll_research"
    /\ now' = now + interval
    /\ sleeps' = Append(sleeps, interval)
    /\ pc' = "poll"
    /\ UNCHANGED <<variant, start_time, max_timeout, elapsed, poll_num,
                   status, normalized_status, interval, outcome, returned,
                   exited, exit_code, raised, checks, onlyInProgress>>
    /\ UNCHANGED <<request_id, checked_id, timed_out_before, errors, cache,
                   files, main_pc, result>>
    /\ UNCHANGED <<copies, issued, run>>

----------------------------------------------------------------------------
(* main() of scripts/poll_research.py, from the point where the API key has *)
(* been read.                                                              *)

\* Mutant: --check-only reports a failed request by its exit code.
CheckOnlyExitCode_by_status(s) == IF s = "failed" THEN 1 ELSE 0

\* sys.exit(0) at the end of the --check-only branch, whatever status s the
\* response carries.
CheckOnlyExitCode(s) == 0

\* The process starts: arguments parsed (request id, --check-only or not).
\* files are the files this process has written.
PollResearchMainBegin ==
    /\ pc \in {"idle", "done"}
    /\ main_pc \in {"none", "end"} \/ exited
    /\ \E t \in StartClocks : now' = t
    /\ \E h \in Handles : request_id' = h
    /\ \E co \in BOOLEAN : main_pc' = IF co THEN "check_only" ELSE "poll"
    /\ variant' = "poll_research"
    /\ pc' = "idle"
    /\ files' = {}
    /\ start_time' = 0
    /\ max_timeout' = 0
    /\ poll_num' = 0
    /\ elapsed' = 0
    /\ status' = "none"
    /\ normalized_status' = "none"
    /\ interval' = 0
    /\ outcome' = "none"
    /\ returned' = "none"
    /\ exited' = FALSE
    /\ exit_code' = 0
    /\ raised' = FALSE
    /\ checks' = 0
    /\ sleeps' = <<>>
    /\ onlyInProgress' = TRUE
    /\ checked_id' = "none"
    /\ timed_out_before' = "none"
    /\ errors' = 0
    /\ result' = NoResult
    /\ UNCHANGED cache
    /\ UNCHANGED <<copies, issued, run>>

\* if args.check_only: one check_status call, the response printed,
\* sys.exit(0).  An error inside check_status is its sys.exit(1).
PollResearchMainCheckOnly ==
    /\ main_pc = "check_only"
    /\ ~exited
    /\ \E r \in RawStatuses \cup {CheckError}, d \in CheckDurations :
         /\ now' = now + d
         /\ checks' = checks + 1
         /\ checked_id' = request_id
         /\ exited' = TRUE
         /\ IF r = CheckError
            THEN /\ errors' = errors + 1
                 /\ exit_code' = 1
                 /\ status' = status
            ELSE /\ errors' = errors
                 /\ exit_code' = CheckOnlyExitCode(r)
                 /\ status' = r
    /\ main_pc' = "end"
    /\ UNCHANGED <<variant, pc, start_time, max_timeout, elapsed, poll_num,
                   normalized_status, interval, outcome, returned, raised,
                   sleeps, onlyInProgress>>
    /\ UNCHANGED <<request_id, timed_out_before, cache, files, result>>
    /\ UNCHANGED <<copies, issued, run>>

\* response = poll_until_complete(request_id=args.request_id, ...,
\* max_timeout=args.timeout): the call.
PollResearchMainPoll ==
    /\ main_pc = "poll"
    /\ pc = "idle"
    /\ ~exited
    /\ PollResearchStart
    /\ request_id' = request_id

\* save_raw_json after poll_until_complete has returned; an exception while
\* writing ends the process with exit code 1 (except Exception).
PollResearchMainSaveRawJson ==
    /\ main_pc = "poll"
    /\ pc = "done"
    /\ ~exited
    /\ returned = "response"
    /\ \E ok \in BOOLEAN :
         IF ok
         THEN /\ files' = files \cup {"raw.json"}
              /\ main_pc' = "save_markdown"
              /\ UNCHANGED <<exited, exit_code>>
         ELSE /\ files' = files
              /\ main_pc' = "end"
              /\ exited' = TRUE
              /\ exit_code' = 1
    /\ UNCHANGED <<variant, pc, now, start_time, max_timeout, elapsed,
                   poll_num, status, normalized_status, interval, outcome,
                   returned, raised, checks, sleeps, onlyInProgress>>
    /\ UNCHANGED <<request_id, checked_id, timed_out_before, errors, cache,
                   result>>
    /\ UNCHANGED <<copies, issued, run>>

\* save_markdown and the summary; main() then returns (exit code 0).  An
\* exception while writing ends the process with exit code 1.
PollResearchMainSaveMarkdown ==
    /\ main_pc = "save_markdown"
    /\ ~exited
    /\ \E ok \in BOOLEAN :
         IF ok
         THEN /\ files' = files \cup {"report.md"}
              /\ UNCHANGED <<exited, exit_code>>
         ELSE /\ files' = files
              /\ exited' = TRUE
              /\ exit_code' = 1
    /\ main_pc' = "end"
    /\ UNCHANGED <<variant, pc, now, start_time, max_timeout, elapsed,
                   poll_num, status, normalized_status, interval, outcome,
                   returned, raised, checks, sleeps, onlyInProgress>>
    /\ UNCHANGED <<request_id, checked_id, timed_out_before, errors, cache,
                   result>>
    /\ UNCHANGED <<copies, issued, run>>

\* except KeyboardInterrupt: sys.exit(130).  The interrupt can arrive at any
\* point of main(): before or during the poll session, or while saving.
PollResearchMainInterrupt ==
    /\ main_pc \in {"check_only", "poll", "save_markdown"}
    /\ ~exited
    /\ exited' = TRUE
    /\ exit_code' = 130
    /\ main_pc' = "end"
    /\ pc' = IF pc \in {"poll", "sleep"} THEN "done" ELSE pc
    /\ outcome' = IF pc \in {"poll", "sleep"} THEN "Interrupted" ELSE outcome
    /\ UNCHANGED <<variant, now, start_time, max_timeout, elapsed, poll_num,
                   status, normalized_status, interval, returned, raised,
                   checks, sleeps, onlyInProgress>>
    /\ UNCHANGED <<request_id, checked_id, timed_out_before, errors, cache,
                   files, result>>
    /\ UNCHANGED <<copies, issued, run>>

PollResearchMainNext ==
    \/ PollResearchMainBegin
    \/ PollResearchMainCheckOnly
    \/ PollResearchMainPoll
    \/ PollResearchPoll
    \/ PollResearchSleep
    \/ PollResearchMainSaveRawJson
    \/ PollResearchMainSaveMarkdown
    \/ PollResearchMainInterrupt

SpecPollResearchMain == Init /\ [][PollResearchMainNext]_vars

----------------------------------------------------------------------------
(* scripts/generate_gamma_presentation.py *)

\* TIMEOUT_MS = 10 * 60 * 1000 and POLL_INTERVAL_MS = 30 * 1000.
TIMEOUT_MS == 600000
POLL_INTERVAL_MS == 30000

\* Values of data.get("status") or data.get("state") or "" in a status
\* response, in the spellings tried.
GammaRawStatuses == {"completed", "Succeeded", "FAILED", "error", "pending", ""}

\* What extract_url finds in a status response: a URL, or None.
GammaUrls == {None, "https://gamma.app/docs/x"}

\* str.lower on the spellings tried.
Lower(s) ==
    CASE s = "Succeeded" -> "succeeded"
      [] s = "FAILED" -> "failed"
      [] OTHER -> s

is_completed(s) == Lower(s) \in {"completed", "succeeded"}

is_failed(s) == Lower(s) \in {"failed", "error"}

\* Entry of poll_generation_status, up to the loop: start is the clock in
\* milliseconds.
GammaStart ==
    /\ pc \in {"idle", "done"}
    /\ ~(raised /\ ~exited)
    /\ \E t \in StartClocks :
         /\ now' = t
         /\ start_time' = t * 1000
    /\ max_timeout' = TIMEOUT_MS
    /\ variant' = "gamma"
    /\ pc' = "poll"
    /\ poll_num' = 0
    /\ elapsed' = 0
    /\ status' = "none"
    /\ normalized_status' = "none"
    /\ interval' = 0
    /\ outcome' = "none"
    /\ returned' = "none"
    /\ exited' = FALSE
    /\ exit_code' = 0
    /\ raised' = FALSE
    /\ checks' = 0
    /\ sleeps' = <<>>
    /\ onlyInProgress' = TRUE
    /\ \E h \in Handles : request_id' = h
    /\ checked_id' = "none"
    /\ timed_out_before' =
         IF pc = "done" /\ outcome = "TimedOut" THEN request_id ELSE "none"
    /\ errors' = 0
    /\ result' = NoResult
    /\ UNCHANGED <<cache, files, main_pc>>
    /\ UNCHANGED <<copies, issued, run>>

\* Mutant: an exception of the status request ends the session as a failure.
GammaPoll_error_fails ==
    /\ pc = "poll"
    /\ variant = "gamma"
    /\ LET e == (now * 1000) - start_time
       IN  /\ elapsed' = e
           /\ IF ~(e < TIMEOUT_MS)
              THEN \* the loop is left: "Timed out waiting for generation"
                   /\ outcome' = "TimedOut"
                   /\ pc' = "done"
                   /\ returned' = "result"
                   /\ result' = [url |-> None,
                                 generation_id |-> request_id,
                                 error |-> "Timed out waiting for generation"]
                   /\ UNCHANGED <<now, checks, errors, status,
                                  normalized_status, interval, checked_id>>
              ELSE \E r \in GammaRawStatuses \cup {CheckError},
                      d \in CheckDurations, u \in GammaUrls :
                   /\ checks' = checks + 1
                   /\ checked_id' = request_id
                   /\ now' = now + d
                   /\ IF r = CheckError
                      THEN \* the error is reported as a failed generation
                           /\ errors' = errors + 1
                           /\ outcome' = "Failed"
                           /\ pc' = "done"
                           /\ interval' = interval
                           /\ returned' = "result"
                           /\ result' =
                                [url |-> None,
                                 generation_id |-> request_id,
                                 error |-> "Generation failed"]
                           /\ UNCHANGED <<status, normalized_status>>
                      ELSE /\ errors' = errors
                           /\ status' = r
                           /\ normalized_status' = Lower(r)
                           /\ IF is_completed(Lower(r))
                              THEN /\ outcome' = "Completed"
                                   /\ pc' = "done"
                                   /\ returned' = "result"
                                   /\ result' =
                                        [url |-> u,
                                         generation_id |-> request_id,
                                         error |-> IF u # None THEN None
                                                   ELSE "No export URL"]
                                   /\ interval' = interval
                              ELSE IF is_failed(Lower(r))
                              THEN /\ outcome' = "Failed"
                                   /\ pc' = "done"
                                   /\ returned' = "result"
                                   /\ result' =
                                        [url |-> None,
                                         generation_id |-> request_id,
                                         error |-> "Generation failed"]
                                   /\ interval' = interval
                              ELSE /\ outcome' = "none"
                                   /\ pc' = "sleep"
                                   /\ interval' = POLL_INTERVAL_MS \div 1000
                                   /\ UNCHANGED <<returned, result>>
    /\ UNCHANGED <<variant, start_time, max_timeout, poll_num, exited,
                   exit_code, raised, sleeps, onlyInProgress>>
    /\ UNCHANGED <<request_id, timed_out_before, cache, files, main_pc>>
    /\ UNCHANGED <<copies, issued, run>>

\* Mutant: the while condition lets a pass start at exactly 10 minutes.
GammaPoll_inclusive_limit ==
    /\ pc = "poll"
    /\ variant = "gamma"
    /\ LET e == (now * 1000) - start_time
       IN  /\ elapsed' = e
           /\ IF ~(e <= TIMEOUT_MS)
              THEN \* the loop is left: "Timed out waiting for generation"
                   /\ outcome' = "TimedOut"
                   /\ pc' = "done"
                   /\ returned' = "result"
                   /\ result' = [url |-> None,
                                 generation_id |-> request_id,
                                 error |-> "Timed out waiting for generation"]
                   /\ UNCHANGED <<now, checks, errors, status,
                                  normalized_status, interval, checked_id>>
              ELSE \E r \in GammaRawStatuses \cup {CheckError},
                      d \in CheckDurations, u \in GammaUrls :
                   /\ checks' = checks + 1
                   /\ checked_id' = request_id
                   /\ now' = now + d
                   /\ IF r = CheckError
                      THEN \* except Exception: time.sleep(poll_interval_sec)
                           /\ errors' = errors + 1
                           /\ outcome' = "none"
                           /\ pc' = "sleep"
                           /\ interval' = POLL_INTERVAL_MS \div 1000
                           /\ UNCHANGED <<status, normalized_status,
                                          returned, result>>
                      ELSE /\ errors' = errors
                           /\ status' = r
                           /\ normalized_status' = Lower(r)
                           /\ IF is_completed(Lower(r))
                              THEN /\ outcome' = "Completed"
                                   /\ pc' = "done"
                                   /\ returned' = "result"
                                   /\ result' =
                                        [url |-> u,
                                         generation_id |-> request_id,
                                         error |-> IF u # None THEN None
                                                   ELSE "No export URL"]
                                   /\ interval' = interval
                              ELSE IF is_failed(Lower(r))
                              THEN /\ outcome' = "Failed"
                                   /\ pc' = "done"
                                   /\ returned' = "result"
                                   /\ result' =
                                        [url |-> None,
                                         generation_id |-> request_id,
                                         error |-> "Generation failed"]
                                   /\ interval' = interval
                              ELSE /\ outcome' = "none"
                                   /\ pc' = "sleep"
                                   /\ interval' = POLL_INTERVAL_MS \div 1000
                                   /\ UNCHANGED <<returned, result>>
    /\ UNCHANGED <<variant, start_time, max_timeout, poll_num, exited,
                   exit_code, raised, sleeps, onlyInProgress>>
    /\ UNCHANGED <<request_id, timed_out_before, cache, files, main_pc>>
    /\ UNCHANGED <<copies, issued, run>>

\* Mutant: a completed status without a URL gives a result without an error.
GammaPoll_no_url_no_error ==
    /\ pc = "poll"
    /\ variant = "gamma"
    /\ LET e == (now * 1000) - start_time
       IN  /\ elapsed' = e
           /\ IF ~(e < TIMEOUT_MS)
              THEN \* the loop is left: "Timed out waiting for generation"
                   /\ outcome' = "TimedOut"
                   /\ pc' = "done"
                   /\ returned' = "result"
                   /\ result' = [url |-> None,
                                 generation_id |-> request_id,
                                 error |-> "Timed out waiting for generation"]
                   /\ UNCHANGED <<now, checks, errors, status,
                                  normalized_status, interval, checked_id>>
              ELSE \E r \in GammaRawStatuses \cup {CheckError},
                      d \in CheckDurations, u \in GammaUrls :
                   /\ checks' = checks + 1
                   /\ checked_id' = request_id
                   /\ now' = now + d
                   /\ IF r = CheckError
                      THEN \* except Exception: time.sleep(poll_interval_sec)
                           /\ errors' = errors + 1
                           /\ outcome' = "none"
                           /\ pc' = "sleep"
                           /\ interval' = POLL_INTERVAL_MS \div 1000
                           /\ UNCHANGED <<status, normalized_status,
                                          returned, result>>
                      ELSE /\ errors' = errors
                           /\ status' = r
                           /\ normalized_status' = Lower(r)
                           /\ IF is_completed(Lower(r))
                              THEN /\ outcome' = "Completed"
                                   /\ pc' = "done"
                                   /\ returned' = "result"
                                   /\ result' =
                                        [url |-> u,
                                         generation_id |-> request_id,
                                         error |-> IF u # None THEN None
                                                   ELSE None]
                                   /\ interval' = interval
                              ELSE IF is_failed(Lower(r))
                              THEN /\ outcome' = "Failed"
                                   /\ pc' = "done"
                                   /\ returned' = "result"
                                   /\ result' =
                                        [url |-> None,
                                         generation_id |-> request_id,
                                         error |-> "Generation failed"]
                                   /\ interval' = interval
                              ELSE /\ outcome' = "none"
                                   /\ pc' = "sleep"
                                   /\ interval' = POLL_INTERVAL_MS \div 1000
                                   /\ UNCHANGED <<returned, result>>
    /\ UNCHANGED <<variant, start_time, max_timeout, poll_num, exited,
                   exit_code, raised, sleeps, onlyInProgress>>
    /\ UNCHANGED <<request_id, timed_out_before, cache, files, main_pc>>
    /\ UNCHANGED <<copies, issued, run>>

\* One pass through the loop, from the test of the while condition to the
\* point where the function returns or is about to sleep.  r is what the
\* status request gives (a status, or an exception), d the time it takes and
\* u what extract_url finds.
GammaPoll ==
    /\ pc = "poll"
    /\ variant = "gamma"
    /\ LET e == (now * 1000) - start_time
       IN  /\ elapsed' = e
           /\ IF ~(e < TIMEOUT_MS)
              THEN \* the loop is left: "Timed out waiting for generation"
                   /\ outcome' = "TimedOut"
                   /\ pc' = "done"
                   /\ returned' = "result"
                   /\ result' = [url |-> None,
                                 generation_id |-> request_id,
                                 error |-> "Timed out waiting for generation"]
                   /\ UNCHANGED <<now, checks, errors, status,
                                  normalized_status, interval, checked_id>>
              ELSE \E r \in GammaRawStatuses \cup {CheckError},
                      d \in CheckDurations, u \in GammaUrls :
                   /\ checks' = checks + 1
                   /\ checked_id' = request_id
                   /\ now' = now + d
                   /\ IF r = CheckError
                      THEN \* except Exception: time.sleep(poll_interval_sec)
                           /\ errors' = errors + 1
                           /\ outcome' = "none"
                           /\ pc' = "sleep"
                           /\ interval' = POLL_INTERVAL_MS \div 1000
                           /\ UNCHANGED <<status, normalized_status,
                                          returned, result>>
                      ELSE /\ errors' = errors
                           /\ status' = r
                           /\ normalized_status' = Lower(r)
                           /\ IF is_completed(Lower(r))
                              THEN /\ outcome' = "Completed"
                                   /\ pc' = "done"
                                   /\ returned' = "result"
                                   /\ result' =
                                        [url |-> u,
                                         generation_id |-> request_id,
                                         error |-> IF u # None THEN None
                                                   ELSE "No export URL"]
                                   /\ interval' = interval
                              ELSE IF is_failed(Lower(r))
                              THEN /\ outcome' = "Failed"
                                   /\ pc' = "done"
                                   /\ returned' = "result"
                                   /\ result' =
                                        [url |-> None,
                                         generation_id |-> request_id,
                                         error |-> "Generation failed"]
                                   /\ interval' = interval
                              ELSE /\ outcome' = "none"
                                   /\ pc' = "sleep"
                                   /\ interval' = POLL_INTERVAL_MS \div 1000
                                   /\ UNCHANGED <<returned, result>>
    /\ UNCHANGED <<variant, start_time, max_timeout, poll_num, exited,
                   exit_code, raised, sleeps, onlyInProgress>>
    /\ UNCHANGED <<request_id, timed_out_before, cache, files, main_pc>>
    /\ UNCHANGED <<copies, issued, run>>

\* Mutant: both time.sleep calls of the loop body are made in one pass.
GammaSleep_twice ==
    /\ pc = "sleep"
    /\ variant = "gamma"
    /\ now' = now + interval + interval
    /\ sleeps' = Append(Append(sleeps, interval), interval)
    /\ pc' = "poll"
    /\ UNCHANGED <<variant, start_time, max_timeout, elapsed, poll_num,
                   status, normalized_status, interval, outcome, returned,
                   exited, exit_code, raised, checks, onlyInProgress>>
    /\ UNCHANGED <<request_id, checked_id, timed_out_before, errors, cache,
                   files, main_pc, result>>
    /\ UNCHANGED <<copies, issued, run>>

\* time.sleep(poll_interval_sec), then back to the while condition.
GammaSleep ==
    /\ pc = "sleep"
    /\ variant = "gamma"
    /\ now' = now + interval
    /\ sleeps' = Append(sleeps, interval)
    /\ pc' = "poll"
    /\ UNCHANGED <<variant, start_time, max_timeout, elapsed, poll_num,
                   status, normalized_status, interval, outcome, returned,
                   exited, exit_code, raised, checks, onlyInProgress>>
    /\ UNCHANGED <<request_id, checked_id, timed_out_before, errors, cache,
                   files, main_pc, result>>
    /\ UNCHANGED <<copies, issued, run>>

\* generate_presentation where the submission does not lead to a poll
\* session: make_request raises (except Exception: error = str(e)), or the
\* response carries no generation id.
GammaSubmitFails ==
    /\ pc \in {"idle", "done"}
    /\ ~(raised /\ ~exited)
    /\ \E t \in StartClocks : now' = t
    /\ \E why \in {"exception", "no generation id"} :
         result' = [url |-> None, generation_id |-> None,
                    error |-> IF why = "exception" THEN "str(e)"
                              ELSE "Failed to extract generation ID"]
    /\ returned' = "result"
    /\ main_pc' = "generate_presentation"
    /\ variant' = "gamma"
    /\ pc' = "done"
    /\ start_time' = 0
    /\ max_timeout' = 0
    /\ poll_num' = 0
    /\ elapsed' = 0
    /\ status' = "none"
    /\ normalized_status' = "none"
    /\ interval' = 0
    /\ outcome' = "none"
    /\ exited' = FALSE
    /\ exit_code' = 0
    /\ raised' = FALSE
    /\ checks' = 0
    /\ sleeps' = <<>>
    /\ onlyInProgress' = TRUE
    /\ request_id' = "none"
    /\ checked_id' = "none"
    /\ timed_out_before' = "none"
    /\ errors' = 0
    /\ UNCHANGED <<cache, files, copies, issued, run>>

\* generate_presentation: the submission, and for a submission that gave a
\* generation id the poll session whose result it returns.
GammaGenerateNext ==
    \/ GammaSubmitFails
    \/ GammaStart
    \/ GammaPoll
    \/ GammaSleep

SpecGammaGenerate == Init /\ [][GammaGenerateNext]_vars

GammaNext ==
    \/ GammaStart
    \/ GammaPoll
    \/ GammaSleep

SpecGamma == Init /\ [][GammaNext]_vars

----------------------------------------------------------------------------

----------------------------------------------------------------------------
(* The interval functions on their own: each copy is called once with an   *)
(* argument drawn from 0 .. MaxElapsedArg.                                  *)

IntervalInit ==
    /\ variant \in Variants
    /\ pc = "call"
    /\ elapsed \in 0 .. MaxElapsedArg
    /\ now = 0
    /\ start_time = 0
    /\ max_timeout = 0
    /\ poll_num = 0
    /\ status = "none"
    /\ normalized_status = "none"
    /\ interval = 0
    /\ outcome = "none"
    /\ returned = "none"
    /\ exited = FALSE
    /\ exit_code = 0
    /\ raised = FALSE
    /\ checks = 0
    /\ sleeps = <<>>
    /\ onlyInProgress = TRUE
    /\ request_id = "none"
    /\ checked_id = "none"
    /\ timed_out_before = "none"
    /\ errors = 0
    /\ cache = {}
    /\ files = {}
    /\ main_pc = "none"
    /\ result = NoResult
    /\ copies = NoCopies
    /\ issued = NoRequests
    /\ run = NoRun

IntervalFrame ==
    UNCHANGED <<variant, now, start_time, max_timeout, elapsed, poll_num,
                status, normalized_status, outcome, returned, exited,
                exit_code, raised, checks, sleeps, onlyInProgress,
                request_id, checked_id, timed_out_before, errors, cache,
                files, main_pc, result, copies, issued, run>>

BaseIntervalCall ==
    /\ pc = "call" /\ variant = "base"
    /\ interval' = Base_get_adaptive_poll_interval(elapsed)
    /\ pc' = "called"
    /\ IntervalFrame

ScriptIntervalCall ==
    /\ pc = "call" /\ variant = "script"
    /\ interval' = Script_get_adaptive_poll_interval(elapsed)
    /\ pc' = "called"
    /\ IntervalFrame

PollResearchIntervalCall ==
    /\ pc = "call" /\ variant = "poll_research"
    /\ interval' = get_adaptive_poll_interval(elapsed)
    /\ pc' = "called"
    /\ IntervalFrame

IntervalNext ==
    \/ BaseIntervalCall
    \/ ScriptIntervalCall
    \/ PollResearchIntervalCall

SpecInterval == IntervalInit /\ [][IntervalNext]_vars

----------------------------------------------------------------------------
(* The OpenAI status normalisation on its own: OpenAIProvider.check_status  *)
(* (scripts/research.py) and the inline mapping of poll_research are        *)
(* applied to one response after the other.                                 *)

\* Number of responses normalised in a row.
MaxNormalizeCalls == 8

\* A response without a "status" key.
MissingStatus == "<missing>"

\* The "status" entries of the responses tried.
ResponseStatuses ==
    {"completed", "failed", "processing", "pending", "cancelled",
     MissingStatus}

\* response.get("status", "unknown")
get_status(r) == IF r = MissingStatus THEN "unknown" ELSE r

\* Mutant: a status that is not recognised is taken for a failure.
OpenAI_check_status_unknown_fails(s) ==
    IF s \in {"processing", "pending"} THEN "in_progress"
    ELSE IF s = "completed" THEN "completed"
    ELSE "failed"

\* "Normalize status" of OpenAIProvider.check_status.
OpenAI_check_status(s) ==
    IF s \in {"processing", "pending"} THEN "in_progress"
    ELSE IF s = "completed" THEN "completed"
    ELSE IF s = "failed" THEN "failed"
    ELSE "in_progress"

NormalizeInit ==
    /\ Init
    /\ pc = "idle"

NormalizeFrame ==
    UNCHANGED <<now, start_time, max_timeout, elapsed, interval, outcome,
                returned, exited, exit_code, raised, checks, sleeps,
                request_id, checked_id, timed_out_before, errors, cache,
                files, main_pc, result, copies, issued, run>>

\* One call of OpenAIProvider.check_status, from the response to the label.
OpenAINormalizeCall ==
    /\ pc \in {"idle", "called"}
    /\ variant \in {"none", "script"}
    /\ poll_num < MaxNormalizeCalls
    /\ \E r \in ResponseStatuses :
         /\ status' = get_status(r)
         /\ normalized_status' = OpenAI_check_status(get_status(r))
         /\ onlyInProgress' =
              (onlyInProgress
                 /\ OpenAI_check_status(get_status(r)) = "in_progress")
    /\ variant' = "script"
    /\ pc' = "called"
    /\ poll_num' = poll_num + 1
    /\ NormalizeFrame

\* One pass through the status lines of poll_research.poll_until_complete,
\* from the response to normalized_status.
PollResearchNormalizeCall ==
    /\ pc \in {"idle", "called"}
    /\ variant \in {"none", "poll_research"}
    /\ poll_num < MaxNormalizeCalls
    /\ \E r \in ResponseStatuses :
         /\ status' = get_status(r)
         /\ normalized_status' = PollResearchNormalize(get_status(r))
         /\ onlyInProgress' =
              (onlyInProgress
                 /\ PollResearchNormalize(get_status(r)) = "in_progress")
    /\ variant' = "poll_research"
    /\ pc' = "called"
    /\ poll_num' = poll_num + 1
    /\ NormalizeFrame

NormalizeNext ==
    \/ OpenAINormalizeCall
    \/ PollResearchNormalizeCall

SpecNormalize == NormalizeInit /\ [][NormalizeNext]_vars

----------------------------------------------------------------------------
Next ==
    \/ BaseStart
    \/ BasePoll
    \/ BaseSleep
    \/ BaseMainExcept
    \/ ScriptStart
    \/ ScriptPoll
    \/ ScriptSleep
    \/ ScriptMainExcept
    \/ PollResearchStart
    \/ PollResearchPoll
    \/ PollResearchSleep

Spec == Init /\ [][Next]_vars

\* The research pollers and the Gamma poller together.
SpecPollers == Init /\ [][Next \/ GammaNext]_vars

\* Every status check and every sleep returns: an iteration that can be made
\* is made.  Starting a session is left to the caller.
FairSpec ==
    /\ Spec
    /\ WF_vars(BasePoll) /\ WF_vars(BaseSleep)
    /\ WF_vars(ScriptPoll) /\ WF_vars(ScriptSleep)
    /\ WF_vars(PollResearchPoll) /\ WF_vars(PollResearchSleep)

----------------------------------------------------------------------------
(* Notions of the specification used by the properties below.              *)

Terminal(s) == s \in {"completed", "failed"}

\* The backoff table of the specification, section 4.1.
ScheduledInterval(e) ==
    CASE e < 10 -> 10
      [] e >= 10 /\ e < 30 -> 30
      [] e >= 30 /\ e < 300 -> 60
      [] e >= 300 -> 300

\* The ceiling of a session of copy v whose max_timeout parameter is m: the
\* parameter in poll_research, the literal 1800 in the two BaseProviders.
CeilingOf(v, m) ==
    CASE v = "base" -> BaseMaxTimeout
      [] v = "script" -> ScriptMaxTimeout
      [] OTHER -> m

\* The interval function of copy v applied to e.
IntervalOf(v, e) ==
    CASE v = "base" -> Base_get_adaptive_poll_interval(e)
      [] v = "script" -> Script_get_adaptive_poll_interval(e)
      [] OTHER -> get_adaptive_poll_interval(e)

RECURSIVE SumSeq(_)
SumSeq(q) == IF q = <<>> THEN 0 ELSE Head(q) + SumSeq(Tail(q))

\* All status checks of the session so far took no time: the clock has
\* advanced by the sleeps alone.
Instant == now - start_time = SumSeq(sleeps)

\* State of the session in the terms of the specification's state machine.
SessionState ==
    IF pc \in {"poll", "sleep"} THEN "Polling"
    ELSE IF pc = "done" THEN outcome
    ELSE "Idle"

----------------------------------------------------------------------------
(* The three research pollers side by side: started at the same clock       *)
(* reading, each given the same status and the same check duration at its   *)
(* k-th status check, poll_research with max_timeout = 1800.                 *)

\* The normalised statuses handed to the three copies.
LockstepStatuses == {"completed", "failed", "in_progress"}

\* The decision copy v takes on status n at elapsed e.
DecideOf(v, n, e) ==
    CASE v = "base" -> BaseDecide(n, e)
      [] v = "script" -> ScriptDecide(n, e)
      [] OTHER -> PollResearchDecide(PollResearchNormalize(n), e,
                                     PollResearchDefaultTimeout)

\* How copy v leaves its loop on that decision.
EndOf(v, step) ==
    CASE v = "base" ->
           [returned |-> BaseReturn(step), exited |-> FALSE, exit_code |-> 0]
      [] v = "script" ->
           [returned |-> ScriptReturn(step), exited |-> FALSE,
            exit_code |-> 0]
      [] OTHER -> PollResearchEnd(step)

\* One iteration of copy v in state c, up to the return, the exit or the
\* point before the sleep; a copy that is not at the top of its loop stays.
CopyPoll(v, c, n, d) ==
    IF c.pc # "poll" THEN c
    ELSE LET e == c.now - start_time
             step == DecideOf(v, n, e)
             end == EndOf(v, step)
         IN  [c EXCEPT !.elapsed = e,
                       !.poll_num = @ + 1,
                       !.checks = @ + 1,
                       !.now = @ + d,
                       !.returned = end.returned,
                       !.exited = end.exited,
                       !.exit_code = end.exit_code,
                       !.pc = IF step = "Sleep" THEN "sleep" ELSE "done",
                       !.outcome = IF step = "Sleep" THEN "none" ELSE step,
                       !.interval = IF step = "Sleep" THEN IntervalOf(v, e)
                                    ELSE @]

\* time.sleep(interval) of a copy that is about to sleep.
CopySleep(c) ==
    IF c.pc # "sleep" THEN c
    ELSE [c EXCEPT !.now = @ + c.interval,
                   !.sleeps = Append(@, c.interval),
                   !.pc = "poll"]

\* Where the side-by-side run stands: some copy sleeps, some copy polls, or
\* all have ended.
LockstepPc(cs) ==
    IF \E v \in Variants : cs[v].pc = "sleep" THEN "sleep"
    ELSE IF \E v \in Variants : cs[v].pc = "poll" THEN "poll"
    ELSE "done"

LockstepFrame ==
    UNCHANGED <<max_timeout, elapsed, poll_num, interval, outcome, returned,
                exited, exit_code, raised, checks, sleeps, onlyInProgress,
                request_id, checked_id, timed_out_before, errors, cache,
                files, main_pc, result, issued, run>>

\* The three copies are entered at the same clock reading.
LockstepStart ==
    /\ pc \in {"idle", "done"}
    /\ \E t \in StartClocks :
         /\ now' = t
         /\ start_time' = t
         /\ copies' = [v \in Variants |->
                          [IdleCopy EXCEPT !.pc = "poll", !.now = t]]
    /\ variant' = "lockstep"
    /\ pc' = "poll"
    /\ status' = "none"
    /\ normalized_status' = "none"
    /\ LockstepFrame

\* Every copy at the top of its loop makes its next status check; all get
\* the same status n and the check takes the same time d for all.
LockstepPoll ==
    /\ pc = "poll"
    /\ variant = "lockstep"
    /\ \A v \in Variants : copies[v].poll_num < MaxPolls
    /\ \E n \in LockstepStatuses, d \in CheckDurations :
         /\ copies' = [v \in Variants |-> CopyPoll(v, copies[v], n, d)]
         /\ status' = n
         /\ normalized_status' = n
    /\ pc' = LockstepPc(copies')
    /\ UNCHANGED <<variant, now, start_time>>
    /\ LockstepFrame

\* Every copy that is about to sleep sleeps its interval.
LockstepSleep ==
    /\ pc = "sleep"
    /\ variant = "lockstep"
    /\ copies' = [v \in Variants |-> CopySleep(copies[v])]
    /\ pc' = LockstepPc(copies')
    /\ UNCHANGED <<variant, now, start_time, status, normalized_status>>
    /\ LockstepFrame

LockstepNext ==
    \/ LockstepStart
    \/ LockstepPoll
    \/ LockstepSleep

SpecLockstep == Init /\ [][LockstepNext]_vars

----------------------------------------------------------------------------
(* C1 *)

C2_Session ==
    /\ variant = "poll_research"
    /\ pc \in {"poll", "sleep", "done"}
    /\ max_timeout = 25
    /\ outcome # "Aborted"
    /\ ~Terminal(normalized_status)

C3_CompletedAtCallNPlus1 ==
    /\ [](outcome = "Completed" /\ onlyInProgress =>
             /\ pc = "done"
             /\ normalized_status = "completed"
             /\ poll_num = checks
             /\ Len(sleeps) = checks - 1
             /\ now - start_time >= SumSeq(sleeps))
    /\ [][(checks' = checks + 1 /\ normalized_status' = "completed") =>
             /\ outcome' = "Completed"
             /\ pc' = "done"
             /\ sleeps' = sleeps]_vars
    /\ [][Len(sleeps') = Len(sleeps) + 1 =>
             /\ sleeps' = Append(sleeps, ScheduledInterval(elapsed))
             /\ Len(sleeps') = checks
             /\ now' = now + ScheduledInterval(elapsed)
             /\ elapsed' = elapsed
             /\ checks' = checks]_vars

\* N = 3: three in-progress checks, three sleeps over three tiers, then
\* completed at the fourth check.
C3_Witness ==
    /\ outcome = "Completed"
    /\ onlyInProgress
    /\ checks = 4
    /\ sleeps = <<10, 30, 60>>

(* C4 *)

\* C4: a status check that returns failed ends the session in Failed at that
\* check, whatever elapsed and max_timeout are: no sleep and no further check
\* follows in the session, BaseProvider returns "failed" and poll_research
\* exits with code 1.
C4_FailedIsFinal ==
    /\ [][(checks' = checks + 1 /\ normalized_status' = "failed") =>
             /\ outcome' = "Failed"
             /\ pc' = "done"
             /\ sleeps' = sleeps
             /\ variant' \in {"base", "script"} =>
                   (returned' = "failed" /\ ~raised' /\ ~exited')
             /\ variant' = "poll_research" =>
                   (exited' /\ exit_code' = 1 /\ returned' = "none")]_vars
    /\ [](outcome = "Failed" =>
             /\ pc = "done"
             /\ normalized_status = "failed"
             /\ Len(sleeps) = checks - 1)
    /\ [][outcome = "Failed" =>
             (pc' = "poll" /\ checks' = 0 /\ sleeps' = <<>>)]_vars

\* Failed at the third check, made when the timeout budget was already used
\* up.
C4_Witness ==
    /\ outcome = "Failed"
    /\ checks = 3
    /\ variant = "poll_research"
    /\ elapsed >= max_timeout

(* C5 *)

\* C5 (under SpecInterval): each copy of the interval function returns 10
\* below 10 s, 30 from 10 s to below 30 s, 60 from 30 s to below 300 s and
\* 300 from 300 s on; an elapsed on a tier boundary takes the upper tier.
C5_IntervalTiers ==
    pc = "called" =>
        /\ elapsed < 10 => interval = 10
        /\ (10 <= elapsed /\ elapsed < 30) => interval = 30
        /\ (30 <= elapsed /\ elapsed < 300) => interval = 60
        /\ elapsed >= 300 => interval = 300
        /\ elapsed = 10 => interval = 30
        /\ elapsed = 30 => interval = 60
        /\ elapsed = 300 => interval = 300

C5_Witness ==
    /\ pc = "called"
    /\ variant = "poll_research"
    /\ elapsed = 300
    /\ interval = 300

(* C6 *)

\* The transitions of the specification's state machine, as steps of a
\* session.
C6_ToCompleted ==
    /\ SessionState' = "Completed"
    /\ normalized_status' = "completed"
    /\ checks' = checks + 1 /\ sleeps' = sleeps

C6_ToFailed ==
    /\ SessionState' = "Failed"
    /\ normalized_status' = "failed"
    /\ checks' = checks + 1 /\ sleeps' = sleeps

C6_ToTimedOut ==
    /\ SessionState' = "TimedOut"
    /\ ~Terminal(normalized_status')
    /\ elapsed' >= max_timeout'
    /\ checks' = checks + 1 /\ sleeps' = sleeps

C6_InProgress ==
    /\ pc = "poll" /\ pc' = "sleep"
    /\ ~Terminal(normalized_status')
    /\ checks' = checks + 1 /\ sleeps' = sleeps

C6_ScheduledSleep ==
    /\ pc = "sleep" /\ pc' = "poll"
    /\ Len(sleeps') = Len(sleeps) + 1
    /\ checks' = checks

C7_EverySessionEnds ==
    /\ [](pc \in {"poll", "sleep"} => <>(pc = "done"))
    /\ [](pc = "poll" => poll_num < MaxPolls)
    /\ [](pc = "done" =>
             /\ outcome \in Outcomes
             /\ (returned # "none" \/ exited \/ raised))

\* A session that saw an unrecognised status and still ended.
C7_Witness ==
    /\ pc = "done"
    /\ variant = "base"
    /\ outcome = "TimedOut"
    /\ status = "cancelled"
    /\ ~onlyInProgress

(* C8 *)

C10_ReturnsFinalStatus ==
    (variant \in {"base", "script"} /\ returned # "none") =>
        returned \in {"completed", "failed"}

----------------------------------------------------------------------------
(* C11 *)

\* C11: the poller keeps nothing from one session to the next.  Every
\* session starts with the poll counter at zero, no check and no sleep made,
\* and its start time at the current clock; and when the previous session for
\* the same handle timed out and the first status check of the new session
\* gives completed, the session ends Completed on that check, at elapsed 0,
\* with poll counter 1 and without any sleep.
C11_NoStateAcrossSessions ==
    /\ [][(pc' = "poll" /\ pc \in {"idle", "done"}) =>
            (/\ poll_num' = 0 /\ checks' = 0 /\ sleeps' = <<>>
             /\ start_time' = now' /\ outcome' = "none")]_vars
    /\ [][(/\ timed_out_before = request_id
           /\ pc = "poll" /\ checks = 0
           /\ checks' = 1 /\ errors' = 0
           /\ normalized_status' = "completed") =>
            (/\ pc' = "done" /\ outcome' = "Completed"
             /\ elapsed' = 0 /\ poll_num' = 1 /\ sleeps' = <<>>)]_vars

C11_Witness ==
    /\ timed_out_before = request_id
    /\ pc = "done" /\ outcome = "Completed"
    /\ checks = 1 /\ elapsed = 0 /\ sleeps = <<>>

----------------------------------------------------------------------------
(* C12 *)

C12_SleepsNeverDecrease ==
    \A i \in 1 .. Len(sleeps) - 1 : sleeps[i] <= sleeps[i + 1]

----------------------------------------------------------------------------
(* C13 *)

\* C13: an error during a status check of a research poller is not retried.
\* The step in which the check fails ends the session without a sleep: in
\* poll_research by sys.exit(1), in BaseProvider.poll_until_complete by the
\* exception leaving the method, which main() then turns into exit code 1.
\* After the failed check the session makes no further check and no sleep.
C13_ErrorNotRetried ==
    /\ [][(errors' > errors) =>
            (/\ pc' = "done" /\ outcome' = "Aborted"
             /\ sleeps' = sleeps /\ returned' = "none"
             /\ (variant = "poll_research" => exited' /\ exit_code' = 1)
             /\ (variant \in {"base", "script"} => raised' /\ ~exited'))]_vars
    /\ [][(raised /\ ~exited) =>
            (/\ exited' /\ exit_code' = 1
             /\ checks' = checks /\ sleeps' = sleeps)]_vars
    /\ [](errors > 0 =>
            (/\ errors = 1 /\ pc = "done" /\ outcome = "Aborted"
             /\ (exited => exit_code = 1)))

C13_Witness ==
    /\ variant = "base" /\ outcome = "Aborted"
    /\ errors = 1 /\ checks = 3 /\ Len(sleeps) = 2
    /\ exited /\ exit_code = 1

----------------------------------------------------------------------------
(* C14 *)

\* C14: in the Gamma poller an exception raised by a status request never
\* ends the session: the poller sleeps one poll interval and goes back to the
\* loop.  A session ends only on a completed status, on a failed status or
\* when the 10-minute limit has passed, never by an exception or an exit; a
\* session all of whose status requests failed ends in the timed-out result.
C14_GammaErrorsAreRetried ==
    /\ [][(errors' > errors) =>
            (/\ pc' = "sleep" /\ outcome' = "none"
             /\ interval' = POLL_INTERVAL_MS \div 1000
             /\ ~raised' /\ ~exited')]_vars
    /\ [][(pc = "sleep") =>
            (/\ pc' = "poll"
             /\ now' = now + (POLL_INTERVAL_MS \div 1000))]_vars
    /\ [](pc = "done" =>
            (/\ ~raised /\ ~exited
             /\ outcome \in {"Completed", "Failed", "TimedOut"}
             /\ (outcome = "Completed" => is_completed(status))
             /\ (outcome = "Failed" => is_failed(status))
             /\ (outcome = "TimedOut" => elapsed >= TIMEOUT_MS)))
    /\ []((pc = "done" /\ checks > 0 /\ errors = checks) =>
            (outcome = "TimedOut" /\ result.error = "Timed out waiting for generation"))

C14_Witness ==
    /\ variant = "gamma" /\ pc = "done"
    /\ checks = 20 /\ errors = checks
    /\ outcome = "TimedOut" /\ result.error = "Timed out waiting for generation"

----------------------------------------------------------------------------
(* C15 *)

\* C15: the job handle of a session is never reassigned, and every status
\* check of the session is made with exactly the handle the session was
\* started with.
C15_HandleImmutable ==
    /\ [][(pc \in {"poll", "sleep"}) => (request_id' = request_id)]_vars
    /\ [][(checks' = checks + 1) => (checked_id' = request_id)]_vars
    /\ [](checks > 0 => checked_id = request_id)
    /\ [](result.generation_id \in {None, request_id})

C15_Witness ==
    /\ variant = "gamma" /\ timed_out_before = "h1"
    /\ request_id = "h2" /\ checked_id = "h2"
    /\ checks = 3 /\ pc = "sleep"

----------------------------------------------------------------------------
(* C16 *)

\* C16: a poll session has no side effect besides its status checks: no step
\* of a session writes a file or changes the provider; for DeepSeekProvider
\* neither a step of poll_until_complete nor a call of check_status adds,
\* removes or changes an entry of _results_cache.
C16_PollingLeavesCacheAlone ==
    [][(pc \in {"poll", "sleep"} \/ pc' = "poll"
          \/ main_pc' = "check_status") =>
        (cache' = cache /\ files' = files)]_vars

C16_Witness ==
    /\ variant = "script" /\ pc = "done" /\ outcome = "TimedOut"
    /\ request_id = "h2" /\ checks = 13
    /\ cache = {"h1"} /\ files = {<<"report", "h2">>}
    /\ main_pc = "check_status"

----------------------------------------------------------------------------
(* C17 *)

\* C17 as stated: poll_research writes files only after poll_until_complete
\* has returned a response whose normalised status is completed, and a run
\* that ends in Failed, TimedOut, a status-check error or a user interrupt has
\* written no file.
C17_NoFileUnlessRunCompleted ==
    /\ (files # {} =>
          (returned = "response" /\ normalized_status = "completed"))
    /\ ((outcome \in {"Failed", "TimedOut", "Aborted"}
           \/ (exited /\ exit_code = 130)) => files = {})

\* C17, amended: files are written only after poll_until_complete has
\* returned a response whose normalised status is completed, the raw JSON
\* first; a session that ended Failed, TimedOut, by a status-check error or
\* by a user interrupt during the session is followed by no write.  (An
\* interrupt that arrives after the session completed can end the run with
\* exit code 130 when the raw JSON has been written.)
C17_FilesOnlyAfterCompleted ==
    /\ (files # {} =>
          (/\ pc = "done" /\ outcome = "Completed"
           /\ returned = "response" /\ normalized_status = "completed"))
    /\ (outcome \in {"Failed", "TimedOut", "Aborted", "Interrupted"} =>
          files = {})
    /\ ("report.md" \in files => "raw.json" \in files)

C17_Witness ==
    /\ main_pc = "end" /\ outcome = "Completed" /\ checks = 3
    /\ files = {"raw.json", "report.md"}
    /\ ~exited /\ exit_code = 0

----------------------------------------------------------------------------
(* C18 *)

\* C18: with --check-only the process makes exactly one status check, never
\* sleeps, starts no poll session and writes no file, and when the check
\* succeeded it exits with code 0 whatever the status is.  (A user interrupt
\* is the one other way out of the branch.)
C18_CheckOnly ==
    /\ [](main_pc = "check_only" =>
            (/\ checks = 0 /\ sleeps = <<>> /\ files = {}
             /\ pc = "idle" /\ ~exited))
    /\ [][(main_pc = "check_only") =>
            (/\ main_pc' = "end" /\ exited'
             /\ sleeps' = <<>> /\ files' = {} /\ pc' = "idle"
             /\ (exit_code' # 130 =>
                   (/\ checks' = 1 /\ checked_id' = request_id
                    /\ (errors' = 0 => exit_code' = 0)
                    /\ (errors' = 1 => exit_code' = 1))))]_vars

C18_Witness ==
    /\ main_pc = "end" /\ pc = "idle"
    /\ checks = 1 /\ errors = 0 /\ status = "failed"
    /\ exited /\ exit_code = 0 /\ files = {} /\ sleeps = <<>>

----------------------------------------------------------------------------
(* C19 *)

\* C19: in every iteration of the research pollers the status check comes
\* before the timeout test.  A check that gives completed (failed) ends the
\* session Completed (Failed) whatever elapsed is, also at or past
\* max_timeout; TimedOut is reported only in the step of a status check that
\* gave a status other than completed and failed, with elapsed at or past the
\* ceiling; and a session never ends without a status check, not even with
\* max_timeout = 0.
C19_CheckBeforeTimeout ==
    /\ [][(checks' = checks + 1 /\ errors' = errors) =>
            (/\ (normalized_status' = "completed" =>
                    (pc' = "done" /\ outcome' = "Completed"))
             /\ (normalized_status' = "failed" =>
                    (pc' = "done" /\ outcome' = "Failed")))]_vars
    /\ [][(outcome' = "TimedOut" /\ outcome = "none") =>
            (/\ checks' = checks + 1 /\ errors' = errors
             /\ ~Terminal(normalized_status')
             /\ elapsed' >= CeilingOf(variant', max_timeout'))]_vars
    /\ [](pc = "done" => checks >= 1)

C19_Witness ==
    /\ variant = "poll_research" /\ max_timeout = 0
    /\ pc = "done" /\ outcome = "Completed"
    /\ checks = 1 /\ elapsed >= max_timeout

----------------------------------------------------------------------------
(* C20 *)

\* The elapsed times of the status checks of a session whose checks take no
\* time, and the sleeps between them.
C20_CheckTimes ==
    <<0, 10, 40, 100, 160, 220, 280, 340, 640, 940, 1240, 1540, 1840>>
C20_Sleeps ==
    <<10, 30, 60, 60, 60, 60, 60, 300, 300, 300, 300, 300>>

\* C20: when the status checks take no time, the k-th check of a session is
\* made at elapsed 0, 10, 40, 100, 160, 220, 280, 340, 640, 940, 1240, 1540,
\* 1840; with the ceiling of 1800 s a session that times out has made exactly
\* 13 checks and reports the timeout at elapsed 1840; and for every
\* max_timeout the timeout is reported at an elapsed below max_timeout + 300.
C20_DefaultSchedule ==
    /\ ((Instant /\ pc \in {"sleep", "done"}) =>
          (checks <= Len(C20_CheckTimes)
           /\ elapsed = C20_CheckTimes[checks]))
    /\ ((Instant /\ outcome = "TimedOut"
           /\ CeilingOf(variant, max_timeout) = BaseMaxTimeout) =>
          (checks = 13 /\ elapsed = 1840 /\ sleeps = C20_Sleeps))
    /\ ((Instant /\ outcome = "TimedOut") =>
          elapsed < CeilingOf(variant, max_timeout) + 300)

C20_Witness ==
    /\ variant = "base" /\ outcome = "TimedOut" /\ Instant
    /\ onlyInProgress /\ checks = 13 /\ elapsed = 1840

----------------------------------------------------------------------------
(* C21 *)

\* C21: status checks and sleeps strictly alternate in every poller.  A
\* status check is made at the top of the loop only and is followed by one
\* sleep or by the end of the session; a sleep is one sleep and leads back to
\* the top of the loop.  So a session that is sleeping or has ended on a
\* status check has made one check more than sleeps, a session at the top of
\* the loop as many checks as sleeps; every session of a research poller ends
\* on a status check, and only the timeout of the Gamma poller ends a session
\* after a sleep.
C21_ChecksAndSleepsAlternate ==
    /\ [][(checks' = checks + 1) =>
            (/\ pc = "poll" /\ pc' \in {"sleep", "done"}
             /\ sleeps' = sleeps)]_vars
    /\ [][(Len(sleeps') > Len(sleeps)) =>
            (/\ pc = "sleep" /\ pc' = "poll"
             /\ checks' = checks
             /\ sleeps' = Append(sleeps, interval)
             /\ now' = now + interval)]_vars
    /\ [](pc = "poll" => checks = Len(sleeps))
    /\ [](pc = "sleep" => checks = Len(sleeps) + 1)
    /\ [](pc = "done" =>
            IF variant = "gamma" /\ outcome = "TimedOut"
            THEN checks = Len(sleeps) /\ checks >= 1
            ELSE checks = Len(sleeps) + 1)

C21_Witness ==
    /\ variant = "gamma" /\ pc = "done" /\ outcome = "TimedOut"
    /\ errors = 0 /\ checks = 20 /\ Len(sleeps) = 20

----------------------------------------------------------------------------
(* C22 *)

\* C22: the OpenAI status normalisation gives every response exactly one of
\* the labels completed, in_progress, failed, and the label depends on the
\* status of that response alone: "completed" gives completed, "failed" gives
\* failed, every other value (processing, pending, a missing status,
\* cancelled) gives in_progress, whatever the responses before it were.
C22_NormalizedStatus ==
    pc = "called" =>
        /\ normalized_status \in {"completed", "in_progress", "failed"}
        /\ (status = "completed" => normalized_status = "completed")
        /\ (status = "failed" => normalized_status = "failed")
        /\ (status \notin {"completed", "failed"} =>
              normalized_status = "in_progress")

C22_Witness ==
    /\ pc = "called" /\ variant = "script" /\ poll_num = 3
    /\ ~onlyInProgress
    /\ status = "unknown" /\ normalized_status = "in_progress"

----------------------------------------------------------------------------
(* C23 *)

\* C23: within a session start_time is set once, before the first poll, and
\* never changed; the first poll reads elapsed 0 plus nothing slept, and
\* every later poll reads an elapsed that is greater than the one read at
\* the poll before it, by at least the interval slept between the two.
C23_ElapsedStrictlyIncreasing ==
    /\ [][(pc \in {"poll", "sleep"}) => (start_time' = start_time)]_vars
    /\ [](pc = "poll" /\ checks = 0 => start_time = now)
    /\ [][(checks' = checks + 1 /\ checks >= 1) =>
            (/\ interval = sleeps[Len(sleeps)]
             /\ interval > 0
             /\ elapsed' >= elapsed + interval
             /\ elapsed' > elapsed)]_vars

C23_Witness ==
    /\ variant = "base" /\ pc = "sleep"
    /\ checks = 3 /\ sleeps = <<10, 60>> /\ elapsed = 110

----------------------------------------------------------------------------
(* C24 *)

\* What a BaseProvider copy returned (ret) corresponds to how poll_research
\* left its loop (end): "completed" to return response, "failed" and
\* "in_progress" to exit code 1, no return to no return and no exit.
C24_Corresponds(ret, end) ==
    CASE ret = "completed" -> (end.returned = "response" /\ ~end.exited)
      [] ret \in {"failed", "in_progress"} ->
           (end.returned = "none" /\ end.exited /\ end.exit_code = 1)
      [] OTHER -> (end.returned = "none" /\ ~end.exited)

\* C24: the three copies of the research poller behave identically.  Given
\* the same statuses and the same clock they are at every moment at the same
\* point, have made the same status checks at the same elapsed times and the
\* same sleeps, and have ended with corresponding outcomes.
C24_CopiesAgree ==
    variant = "lockstep" =>
        LET b == copies["base"]
            s == copies["script"]
            p == copies["poll_research"]
        IN  /\ \A c \in {s, p} :
                  /\ c.pc = b.pc /\ c.now = b.now
                  /\ c.elapsed = b.elapsed /\ c.poll_num = b.poll_num
                  /\ c.checks = b.checks /\ c.sleeps = b.sleeps
                  /\ c.interval = b.interval /\ c.outcome = b.outcome
            /\ s.returned = b.returned /\ ~b.exited /\ ~s.exited
            /\ C24_Corresponds(b.returned, p)

C24_Witness ==
    /\ variant = "lockstep" /\ pc = "done"
    /\ copies["base"].returned = "in_progress"
    /\ copies["script"].checks = 13
    /\ copies["poll_research"].exited
    /\ copies["poll_research"].elapsed = 1860

----------------------------------------------------------------------------
(* C25 *)

\* All status requests of the Gamma session so far took no time.
C25_GammaInstant == now * 1000 - start_time = SumSeq(sleeps) * 1000

\* C25: the Gamma poller polls on a fixed schedule.  Every sleep is 30 s,
\* whatever the elapsed time; a status request is started only while fewer
\* than 600 s have elapsed since the start of the session; when the limit has
\* passed the session ends, without raising, in a result with url None and
\* the "Timed out waiting for generation" error; and a session whose status
\* requests take no time makes at most 20 of them.
C25_GammaFixedSchedule ==
    /\ [](\A i \in 1 .. Len(sleeps) : sleeps[i] = 30)
    /\ [][(pc = "sleep") => (interval = 30 /\ now' = now + 30)]_vars
    /\ [][(checks' = checks + 1) =>
            (now * 1000 - start_time < 600 * 1000)]_vars
    /\ [](outcome = "TimedOut" =>
            (/\ elapsed >= 600 * 1000
             /\ ~raised /\ ~exited /\ returned = "result"
             /\ result.url = None
             /\ result.error = "Timed out waiting for generation"))
    /\ [](C25_GammaInstant => checks <= 20)

C25_Witness ==
    /\ variant = "gamma" /\ pc = "done" /\ outcome = "TimedOut"
    /\ C25_GammaInstant /\ checks = 20 /\ elapsed = 600 * 1000
    /\ status = "pending" /\ result.url = None

----------------------------------------------------------------------------
(* C26 *)

\* C26: every result returned by poll_generation_status and by
\* generate_presentation has exactly one of url and error set.  The url is
\* set only when a status of completed or succeeded, in any spelling, came
\* with a URL; a completed status without a URL, a failed or error status, a
\* timeout and a submission that raised or gave no generation id all give
\* url None with an error; and a completed status ends the session also
\* when it carries no URL.
C26_UrlXorError ==
    /\ [](returned = "result" =>
            (/\ (result.url = None) # (result.error = None)
             /\ (result.url # None =>
                   (outcome = "Completed" /\ is_completed(status)))
             /\ (outcome \in {"Failed", "TimedOut", "none"} =>
                   result.url = None)
             /\ (outcome = "none" => result.generation_id = None)))
    /\ [][(checks' = checks + 1 /\ errors' = errors
            /\ is_completed(status')) =>
            (pc' = "done" /\ outcome' = "Completed"
             /\ returned' = "result")]_vars

C26_Witness ==
    /\ variant = "gamma" /\ pc = "done" /\ outcome = "Completed"
    /\ status = "Succeeded" /\ checks = 2
    /\ result.url = None /\ result.error = "No export URL"

----------------------------------------------------------------------------
(* C27 *)

\* C27: DeepSeekProvider.check_status returns "completed" for every request
\* id that create_request has returned, at every later point of the
\* provider's life and after any sequence of create_request, check_status
\* and get_results calls, inside a poll session as outside one, and it never
\* returns "failed".
C27_AlwaysCompleted ==
    /\ [][(DeepSeekCheckStatus /\ checked_id' \in issued.ids) =>
            returned' = "completed"]_vars
    /\ [][(DeepSeekPoll /\ request_id \in issued.ids) =>
            status' = "completed"]_vars
    /\ [][(DeepSeekCheckStatus \/ DeepSeekPoll) =>
            (returned' # "failed" /\ status' # "failed")]_vars

\* What the code does give: the answer is "completed" exactly while the id
\* is in the cache, and never "failed".
C27_CompletedWhileCached ==
    /\ [][DeepSeekCheckStatus =>
            (/\ returned' \in {"completed", "in_progress"}
             /\ (returned' = "completed") = (checked_id' \in cache))]_vars
    /\ [][DeepSeekPoll =>
            (/\ status' \in {"completed", "in_progress"}
             /\ (status' = "completed") = (request_id \in cache))]_vars

\* check_status has answered "in_progress" for an id that create_request
\* returned and get_results has since retrieved.
C27_Witness ==
    /\ main_pc = "check_status"
    /\ checked_id \in issued.ids
    /\ checked_id \in issued.retrieved
    /\ checked_id \notin cache
    /\ returned = "in_progress"

----------------------------------------------------------------------------
(* C28 *)

\* C28: DeepSeekProvider.get_results consumes the cached result exactly
\* once.  The first get_results call for an id that create_request returned
\* gives the report and removes that id's entry from _results_cache, leaving
\* every other entry as it was; every later call for the same id, and every
\* call for an id never issued, gives the "Request not found" text, saves no
\* report and leaves the cache unchanged.
C28_ConsumedExactlyOnce ==
    [][DeepSeekGetResults =>
         LET h == issued'.asked
         IN  IF h \in issued.ids /\ h \notin issued.retrieved
             THEN /\ returned' = "markdown"
                  /\ h \in cache
                  /\ cache' = cache \ {h}
             ELSE /\ returned' = "Error: Request not found"
                  /\ cache' = cache
                  /\ files' = files]_vars

\* What the code does give: the report goes to the first call after each
\* time create_request stored the id, which it can do again once the entry
\* was popped, since the id is the address of a response object that is no
\* longer alive.
C28_ConsumedWhileCached ==
    /\ [](cache \subseteq issued.ids)
    /\ [][DeepSeekGetResults =>
            LET h == issued'.asked
            IN  IF h \in cache
                THEN /\ returned' = "markdown"
                     /\ cache' = cache \ {h}
                     /\ files' \in {files, files \cup {<<"report", h>>}}
                ELSE /\ returned' = "Error: Request not found"
                     /\ cache' = cache
                     /\ files' = files]_vars

\* A second report has been returned for an id already retrieved once.
C28_Witness ==
    /\ main_pc = "get_results"
    /\ returned = "markdown"
    /\ issued.asked \in issued.retrieved
    /\ cache # {}
    /\ issued.retrieved = Handles

----------------------------------------------------------------------------
(* C29 *)

\* C29: in research main, get_results, and with it the saving of the
\* report, is reached only when the status is "completed".  When
\* create_request returns "in_progress" and --poll was not given, no status
\* check is made and the process exits with code 1; when polling returns
\* "failed", or "in_progress" at its timeout, the process exits with code 1
\* without calling get_results; polling is started only when the creation
\* status is "in_progress" and --poll was given; and get_results is called at
\* most once per run.  (An interrupt from the keyboard ends any run with code
\* 130 instead.)
C29_GetResultsOnlyWhenCompleted ==
    /\ [](/\ run.get_results <= 1
          /\ (main_pc = "get_results" \/ run.get_results > 0 \/ files # {})
               => run.status = "completed"
          /\ (run.created = "in_progress" /\ ~run.poll)
               => (/\ checks = 0 /\ pc = "idle" /\ run.get_results = 0
                   /\ main_pc # "get_results"
                   /\ (main_pc = "end" => (exited /\ exit_code \in {1, 130})))
          /\ (pc = "done" /\ ~raised /\ returned \in {"failed", "in_progress"})
               => (/\ run.get_results = 0
                   /\ main_pc # "get_results"
                   /\ (main_pc = "end" => (exited /\ exit_code \in {1, 130})))
          /\ (pc # "idle") => (run.created = "in_progress" /\ run.poll))
    /\ [][(ResearchMainStatus /\ run'.status \in {"failed", "in_progress"})
            => (exited' /\ exit_code' = 1 /\ main_pc' = "end")]_vars

C29_Witness ==
    /\ variant = "script" /\ run.poll
    /\ pc = "done" /\ outcome = "TimedOut" /\ returned = "in_progress"
    /\ checks = 13
    /\ main_pc = "end" /\ exited /\ exit_code = 1
    /\ run.get_results = 0

====
